---- MODULE Spec2Model ----
(***************************************************************************)
(* A model of the LINE webhook bot: doPost dispatches each event of a     *)
(* webhook batch to a handler chosen by HandlerFactory; TextHandler drives *)
(* the per-user registration flow on top of the Users / Messages sheets.   *)
(*                                                                         *)
(* Texts are sequences of characters.  A character is a one-element string *)
(* for ASCII and the string "U+XXXX" (its code point) otherwise.  Opaque   *)
(* identifiers (user ids, reply tokens, message ids) are plain strings,    *)
(* with "" standing for an absent (undefined) field.  A nullable value is  *)
(* a sequence of length at most one: <<>> is null, <<v>> is v.             *)
(***************************************************************************)
EXTENDS Integers, Sequences, FiniteSets

VARIABLES
    users,      \* Users sheet, data rows only (row k is sheet row k + 1)
    messages,   \* Messages sheet, data rows only
    pending,    \* doPost: events of the batch not yet visited by forEach
    pc,         \* doPost: "idle" | "running" | "hung" | "finished" | "killed"
    now,        \* the clock read by new Date()
    sent,       \* LINE API calls issued during the current invocation
    last,       \* history: the last forEach callback of the invocation
    batchLen,   \* doPost: events.length of the current batch
    visited,    \* doPost: number of forEach callbacks started for the batch
    faulty,     \* history: some store operation has failed since the start
    storeCall,  \* history: the last operation called directly, with its result
    procs,      \* the handlers running at the same time, one per invocation
    sending,    \* LineService: the call in progress, or the one that returned last
    logs,       \* Logger: the lines written, each with what became of its Logs row
    env         \* EnvConfig: script properties, script cache, each instance's envCache

vars ==
    <<users, messages, pending, pc, now, sent, last, batchLen, visited, faulty,
      storeCall, procs, sending, logs, env>>

(***************************************************************************)
(* Bounds of the model.                                                    *)
(***************************************************************************)
MaxEvents == 2
MaxScenario == 4
MaxTextLen == 2
MaxProbe == 122
FormatFuel == 3

MaxCalls == 2

MaxRows == 4

MaxLimit == 3

(***************************************************************************)
(* StatusConstants (src/constants/statusConstants.ts is not in the tree;   *)
(* the four names are those used by TextHandler and User).                 *)
(***************************************************************************)
INITIAL == "INITIAL"
WAITING_NAME == "WAITING_NAME"
WAITING_AGE == "WAITING_AGE"
REGISTERED == "REGISTERED"

(***************************************************************************)
(* MessageConstants.                                                       *)
(***************************************************************************)
WELCOME ==
    << "U+3053", "U+3093", "U+306B", "U+3061", "U+306F", "U+FF01", "U+300C", "U+767B", "U+9332",
       "U+300D", "U+3068", "U+5165", "U+529B", "U+3059", "U+308B", "U+3068", "U+767B", "U+9332",
       "U+3092", "U+958B", "U+59CB", "U+3067", "U+304D", "U+307E", "U+3059", "U+3002" >>

ERROR ==
    << "U+30A8", "U+30E9", "U+30FC", "U+304C", "U+767A", "U+751F", "U+3057", "U+307E", "U+3057",
       "U+305F", "U+3002" >>

HELP ==
    << "U+30D8", "U+30EB", "U+30D7", "U+30E1", "U+30C3", "U+30BB", "U+30FC", "U+30B8", "U+3067",
       "U+3059", "U+3002" >>

UNKNOWN_ACTION ==
    << "U+4E0D", "U+660E", "U+306A", "U+30A2", "U+30AF", "U+30B7", "U+30E7", "U+30F3", "U+3067",
       "U+3059", "U+3002" >>

ANALYSIS_CONTINUED ==
    << "\n", "\n", "(", "U+524D", "U+306E", "U+30E1", "U+30C3", "U+30BB", "U+30FC", "U+30B8",
       "U+306E", "U+7D9A", "U+304D", ")" >>

DEFAULT_RESPONSE ==
    << "U+30C7", "U+30D5", "U+30A9", "U+30EB", "U+30C8", "U+306E", "U+5FDC", "U+7B54", "U+3067",
       "U+3059", "U+3002" >>

REGISTRATION_START ==
    << "U+767B", "U+9332", "U+3092", "U+958B", "U+59CB", "U+3057", "U+307E", "U+3059", "U+3002",
       "U+540D", "U+524D", "U+3092", "U+6559", "U+3048", "U+3066", "U+304F", "U+3060", "U+3055",
       "U+3044", "U+3002" >>

INVALID_NAME ==
    << "U+540D", "U+524D", "U+306F", "2", "U+6587", "U+5B57", "U+4EE5", "U+4E0A", "U+3067",
       "U+5165", "U+529B", "U+3057", "U+3066", "U+304F", "U+3060", "U+3055", "U+3044", "U+3002" >>

NAME_CONFIRMED ==
    << "U+540D", "U+524D", "U+300C", "{", "n", "a", "m", "e", "}", "U+300D", "U+3092", "U+78BA",
       "U+8A8D", "U+3057", "U+307E", "U+3057", "U+305F", "U+3002", "U+5E74", "U+9F62", "U+3092",
       "U+6559", "U+3048", "U+3066", "U+304F", "U+3060", "U+3055", "U+3044", "U+3002" >>

INVALID_AGE ==
    << "U+5E74", "U+9F62", "U+306F", "1", "U+304B", "U+3089", "1", "2", "0", "U+306E", "U+7BC4",
       "U+56F2", "U+3067", "U+5165", "U+529B", "U+3057", "U+3066", "U+304F", "U+3060", "U+3055",
       "U+3044", "U+3002" >>

REGISTRATION_COMPLETED ==
    << "U+767B", "U+9332", "U+304C", "U+5B8C", "U+4E86", "U+3057", "U+307E", "U+3057", "U+305F",
       "U+FF01", "\n", "\n", "U+540D", "U+524D", ":", " ", "{", "n", "a", "m", "e", "}", "\n",
       "U+5E74", "U+9F62", ":", " ", "{", "a", "g", "e", "}" >>

(***************************************************************************)
(* The keywords TextHandler compares the text with.                        *)
(***************************************************************************)
KW_REGISTER ==
    << "U+767B", "U+9332" >>

KW_HELP ==
    << "U+30D8", "U+30EB", "U+30D7" >>

(***************************************************************************)
(* JavaScript string primitives, on sequences of characters.               *)
(***************************************************************************)
Null == << >>

WhiteSpace == {" ", "\t", "\n", "U+3000"}

substring(s, from, to) == SubSeq(s, from + 1, to)

RECURSIVE trimStart(_)
trimStart(s) ==
    IF s # << >> /\ Head(s) \in WhiteSpace THEN trimStart(Tail(s)) ELSE s

RECURSIVE trimEnd(_)
trimEnd(s) ==
    IF s # << >> /\ s[Len(s)] \in WhiteSpace
    THEN trimEnd(SubSeq(s, 1, Len(s) - 1))
    ELSE s

trim(s) == trimEnd(trimStart(s))

startsWith(s, p) == Len(s) >= Len(p) /\ SubSeq(s, 1, Len(p)) = p

\* 0-based index of the first occurrence of p in s, -1 when there is none
indexOf(s, p) ==
    LET hits == {i \in 0..(Len(s) - Len(p)) : SubSeq(s, i + 1, i + Len(p)) = p}
    IN  IF hits = {} THEN -1 ELSE CHOOSE i \in hits : \A j \in hits : i <= j

includes(s, p) == indexOf(s, p) >= 0

\* GetSubstitution for a string pattern: $$ -> $, $& -> the match,
\* $` -> the text before the match, $' -> the text after it
RECURSIVE GetSubstitution(_, _, _, _)
GetSubstitution(matched, before, after, repl) ==
    IF Len(repl) >= 2 /\ repl[1] = "$" /\ repl[2] \in {"$", "&", "`", "'"}
    THEN LET rest == GetSubstitution(matched, before, after, SubSeq(repl, 3, Len(repl)))
         IN  CASE repl[2] = "$" -> <<"$">> \o rest
               [] repl[2] = "&" -> matched \o rest
               [] repl[2] = "`" -> before \o rest
               [] repl[2] = "'" -> after \o rest
    ELSE IF repl = << >> THEN << >>
    ELSE <<Head(repl)>> \o GetSubstitution(matched, before, after, Tail(repl))

\* String.prototype.replace(pattern, replacement) with a string pattern:
\* only the first occurrence is replaced
replace(s, p, v) ==
    LET i == indexOf(s, p)
    IN  IF i < 0 THEN s
        ELSE LET before == SubSeq(s, 1, i)
                 after == SubSeq(s, i + Len(p) + 1, Len(s))
             IN  before \o GetSubstitution(p, before, after, v) \o after

(***************************************************************************)
(* parseInt(text) without a radix.  The result is [nan, val]: NaN when no  *)
(* digit follows the optional white space, sign and 0x prefix.             *)
(***************************************************************************)
DecimalDigits == <<"0", "1", "2", "3", "4", "5", "6", "7", "8", "9">>

HexLower == <<"a", "b", "c", "d", "e", "f">>

HexUpper == <<"A", "B", "C", "D", "E", "F">>

\* the value of character c as a digit of the given radix, -1 when it is none
digitValue(c, radix) ==
    IF \E i \in 1..10 : DecimalDigits[i] = c
    THEN (CHOOSE i \in 1..10 : DecimalDigits[i] = c) - 1
    ELSE IF radix = 16 /\ \E i \in 1..6 : HexLower[i] = c \/ HexUpper[i] = c
    THEN (CHOOSE i \in 1..6 : HexLower[i] = c \/ HexUpper[i] = c) + 9
    ELSE -1

RECURSIVE digitsPrefix(_, _)
digitsPrefix(s, radix) ==
    IF s # << >> /\ digitValue(Head(s), radix) >= 0
    THEN <<Head(s)>> \o digitsPrefix(Tail(s), radix)
    ELSE << >>

RECURSIVE digitsToNumber(_, _, _)
digitsToNumber(z, radix, acc) ==
    IF z = << >> THEN acc
    ELSE digitsToNumber(Tail(z), radix, acc * radix + digitValue(Head(z), radix))

\* the number the digits z denote, NaN when there is no digit
parseNumber(negative, z, radix) ==
    IF z = << >> THEN [nan |-> TRUE, val |-> 0]
    ELSE [nan |-> FALSE,
          val |-> IF negative THEN 0 - digitsToNumber(z, radix, 0)
                  ELSE digitsToNumber(z, radix, 0)]

\* the digits of s (sign and prefix already removed) read in the radix
parseDigits(negative, s, radix) ==
    parseNumber(negative, digitsPrefix(s, radix), radix)

\* strip the 0x / 0X prefix, which selects radix 16
parseUnsigned(negative, s) ==
    IF startsWith(s, <<"0", "x">>) \/ startsWith(s, <<"0", "X">>)
    THEN parseDigits(negative, SubSeq(s, 3, Len(s)), 16)
    ELSE parseDigits(negative, s, 10)

\* strip the sign
parseSigned(s) ==
    IF s # << >> /\ Head(s) \in {"+", "-"}
    THEN parseUnsigned(Head(s) = "-", Tail(s))
    ELSE parseUnsigned(FALSE, s)

parseInt(text) == parseSigned(trimStart(text))

isNaN(x) == x.nan

\* Number.prototype.toString() of an integer
RECURSIVE natToString(_)
natToString(n) ==
    IF n < 10 THEN <<DecimalDigits[n + 1]>>
    ELSE natToString(n \div 10) \o <<DecimalDigits[(n % 10) + 1]>>

toString(n) == IF n < 0 THEN <<"-">> \o natToString(0 - n) ELSE natToString(n)

(***************************************************************************)
(* MessageFormatter.format.  params is the parameter object as the         *)
(* sequence of its <<key, value>> entries in Object.keys order.  The       *)
(* result is [hangs, text]: the while loop of a key that still finds its   *)
(* placeholder after FormatFuel replacements is taken not to terminate.    *)
(***************************************************************************)
RECURSIVE replaceWhileIncludes(_, _, _, _)
replaceWhileIncludes(result, placeholder, value, fuel) ==
    IF ~includes(result, placeholder) THEN [hangs |-> FALSE, text |-> result]
    ELSE IF fuel = 0 THEN [hangs |-> TRUE, text |-> result]
    ELSE replaceWhileIncludes(replace(result, placeholder, value),
                              placeholder, value, fuel - 1)

RECURSIVE formatKeys(_, _)
formatKeys(result, params) ==
    IF params = << >> THEN [hangs |-> FALSE, text |-> result]
    ELSE LET key == Head(params)[1]
             placeholder == <<"{">> \o key \o <<"}">>
             value == Head(params)[2]
             r == replaceWhileIncludes(result, placeholder, value, FormatFuel)
         IN  IF r.hangs THEN r ELSE formatKeys(r.text, Tail(params))

format(template, params) == formatKeys(template, params)

\* a reply that is a constant, not a formatted template
plain(text) == [hangs |-> FALSE, text |-> text]

NameKey == <<"n", "a", "m", "e">>

AgeKey == <<"a", "g", "e">>

(***************************************************************************)
(* HandlerFactory.createHandler.                                           *)
(***************************************************************************)
\* createHandler without its image branch: property C1 tells the two apart
createHandlerNoImage(event) ==
    IF event.type = "message"
    THEN CASE event.msgType = "text" -> "TextHandler"
           [] OTHER -> "DefaultHandler"
    ELSE IF event.type = "postback" THEN "PostbackHandler"
    ELSE "DefaultHandler"

createHandler(event) ==
    IF event.type = "message"
    THEN CASE event.msgType = "text" -> "TextHandler"
           [] event.msgType = "image" -> "ImageHandler"
           [] OTHER -> "DefaultHandler"
    ELSE IF event.type = "postback" THEN "PostbackHandler"
    ELSE "DefaultHandler"

(***************************************************************************)
(* The sheets.  A cell written with null or '' is empty and reads back as  *)
(* ''.  JSON.stringify tags the object it encodes; JSON.parse undoes it.   *)
(***************************************************************************)
EmptyCell == << >>

EmptyString == << << >> >>

\* a nullable string written to a cell
writeCell(v) == IF v = Null \/ v = EmptyString THEN EmptyCell ELSE v

\* a nullable Date written to a cell
writeDateCell(v) == IF v = Null THEN EmptyCell ELSE v

readCell(c) == IF c = EmptyCell THEN EmptyString ELSE c

JSON_stringify(obj) == <<"json", obj>>

JSON_parse(str) == str[2]

\* the value of key k of object obj (a sequence of <<key, value>> entries),
\* as a nullable: << >> when the key is absent
getKey(obj, k) ==
    IF \E i \in 1..Len(obj) : obj[i][1] = k
    THEN <<obj[CHOOSE i \in 1..Len(obj) : obj[i][1] = k][2]>>
    ELSE Null

\* an update that replaces the attribute map: property C16 tells the two
\* apart
spreadReplacing(a, b) == b

\* { ...a, ...b } for a one-entry b
spread(a, b) ==
    LET k == b[1][1]
    IN  IF \E i \in 1..Len(a) : a[i][1] = k
        THEN [i \in 1..Len(a) |-> IF a[i][1] = k THEN b[1] ELSE a[i]]
        ELSE a \o b

\* findUserRow starting its scan one row too late: property C12 tells the
\* two apart
findUserRowFromSecond(sheet, userId) ==
    LET hits == {i \in 2..Len(sheet) : sheet[i][1] = userId}
    IN  IF hits = {} THEN 0
        ELSE (CHOOSE i \in hits : \A j \in hits : i <= j) + 1

\* SpreadsheetService.findUserRow: the sheet row (header is row 1) of the
\* first data row whose userId matches, 0 when there is none
findUserRow(sheet, userId) ==
    LET hits == {i \in 1..Len(sheet) : sheet[i][1] = userId}
    IN  IF hits = {} THEN 0
        ELSE (CHOOSE i \in hits : \A j \in hits : i <= j) + 1

\* a write that leaves a row that is already there as it is: property C13
\* tells the two apart
writeUserRowFirstWins(sheet, existingRow, row) ==
    IF existingRow > 0 THEN sheet ELSE Append(sheet, row)

\* the sheet after the write of saveUserData: setValues on the matched row,
\* appendRow when there is none
writeUserRow(sheet, existingRow, row) ==
    IF existingRow > 0
    THEN [sheet EXCEPT ![existingRow - 1] = row]
    ELSE Append(sheet, row)

\* SpreadsheetService.saveUserData
saveUserData(sheet, userData, t) ==
    writeUserRow(sheet, findUserRow(sheet, userData[1]),
                 IF Len(userData) <= 5 THEN Append(userData, <<t>>) ELSE userData)

\* the row getRange(row, 1, 1, 6).getValues() returns
rowAt(sheet, row) == IF row > 0 THEN <<sheet[row - 1]>> ELSE Null

\* SpreadsheetService.getUserDataByUserId: << >> (null) or <<row>>
getUserDataByUserId(sheet, userId) == rowAt(sheet, findUserRow(sheet, userId))

\* saveMessageData appending the row twice: property C19 tells the two
\* apart
saveMessageDataTwice(sheet, messageData) == Append(Append(sheet, messageData), messageData)

\* saveMessageData writing the new row on top of the sheet: property C18
\* tells the two apart
saveMessageDataOnTop(sheet, messageData) == <<messageData>> \o sheet

\* SpreadsheetService.saveMessageData
saveMessageData(sheet, messageData) == Append(sheet, messageData)

(***************************************************************************)
(* User.                                                                   *)
(***************************************************************************)
\* a User constructor starting the conversation at the name: property C11
\* tells the two apart
NewUserWaitingName(userId, displayName, t) ==
    [userId |-> userId, displayName |-> displayName, state |-> WAITING_NAME,
     data |-> << >>, createdAt |-> t, updatedAt |-> Null]

NewUser(userId, displayName, t) ==
    [userId |-> userId, displayName |-> displayName, state |-> INITIAL,
     data |-> << >>, createdAt |-> t, updatedAt |-> Null]

userRow(user) ==
    <<user.userId, writeCell(user.displayName), user.state,
      JSON_stringify(user.data), user.createdAt, writeDateCell(user.updatedAt)>>

\* User.save: a failure of the store is caught, logged, and turned into the
\* result false; fail says whether saveUserData throws
save(user, sheet, t, fail) ==
    IF fail THEN [ok |-> FALSE, users |-> sheet]
    ELSE [ok |-> TRUE, users |-> saveUserData(sheet, userRow(user), t)]

\* the User object findByUserId builds from a row of the sheet
userOfRow(r) ==
    [userId |-> r[1], displayName |-> readCell(r[2]), state |-> r[3],
     data |-> JSON_parse(r[4]), createdAt |-> r[5],
     updatedAt |-> IF r[6] # EmptyCell THEN r[6] ELSE Null]

\* a nullable row turned into a nullable User
userOfData(userData) == IF userData = Null THEN Null ELSE <<userOfRow(userData[1])>>

\* User.findByUserId: << >> (null) or <<user>>; a failure of the lookup is
\* caught, logged, and turned into null
findByUserId(sheet, userId, fail) ==
    IF fail THEN Null ELSE userOfData(getUserDataByUserId(sheet, userId))

\* the result of an update: the changed object and what save made of the sheet
saved(u, s) == [user |-> u, users |-> s.users, ok |-> s.ok]

saveChanged(u, sheet, t, fail) == saved(u, save(u, sheet, t, fail))

\* User.updateState
updateState(user, newState, sheet, t, fail) ==
    saveChanged([user EXCEPT !.state = newState, !.updatedAt = <<t>>], sheet, t, fail)

\* User.updateData
updateData(user, newData, sheet, t, fail) ==
    saveChanged([user EXCEPT !.data = spread(user.data, newData), !.updatedAt = <<t>>],
                sheet, t, fail)

(***************************************************************************)
(* Message.save: as User.save, a failure is caught and turned into false.  *)
(***************************************************************************)
messageRow(userId, type, content, t) == <<userId, type, JSON_stringify(content), t>>

saveMessage(sheet, userId, type, content, t, fail) ==
    IF fail THEN [ok |-> FALSE, messages |-> sheet]
    ELSE [ok |-> TRUE,
          messages |-> saveMessageData(sheet, messageRow(userId, type, content, t))]

(***************************************************************************)
(* LineService.  post never raises: the call is recorded, whatever the     *)
(* platform answers.                                                       *)
(***************************************************************************)
replyText(replyToken, text) == [api |-> "reply", to |-> replyToken, text |-> text]

sendLoadingAnimation(userId) == [api |-> "loading", to |-> userId, text |-> << >>]

(***************************************************************************)
(* TextHandler.  F is the set of store operations that fail during this    *)
(* event.  Each state handler returns the user object, the Users sheet,    *)
(* the response ([hangs, text]) and the store operations that failed.      *)
(***************************************************************************)
StoreOps ==
    {"message.save", "user.find", "user.create", "user.updateData", "user.updateState"}

failedIf(notOk, op) == IF notOk THEN {op} ELSE {}

\* a state handler that writes nothing
answered(user, sheet, response) ==
    [user |-> user, users |-> sheet, response |-> response, failed |-> {}]

\* a state handler after updateState alone (s)
afterState(s, response) ==
    [user |-> s.user, users |-> s.users, response |-> response,
     failed |-> failedIf(~s.ok, "user.updateState")]

\* a state handler after updateData (d) and then updateState (s)
afterDataAndState(d, s, response) ==
    [user |-> s.user, users |-> s.users, response |-> response,
     failed |-> failedIf(~d.ok, "user.updateData") \cup failedIf(~s.ok, "user.updateState")]

\* user.data.name || ''
nameOrEmpty(data) ==
    IF getKey(data, NameKey) = Null \/ getKey(data, NameKey) = EmptyString
    THEN << >>
    ELSE getKey(data, NameKey)[1]

\* handleInitialState starting the registration at the age: property C3
\* tells the two apart
handleInitialStateSkipName(text, user, sheet, t, F) ==
    IF text = KW_REGISTER
    THEN afterState(updateState(user, WAITING_AGE, sheet, t, "user.updateState" \in F),
                    plain(REGISTRATION_START))
    ELSE IF text = KW_HELP
    THEN answered(user, sheet, plain(HELP))
    ELSE answered(user, sheet, plain(WELCOME))

handleInitialState(text, user, sheet, t, F) ==
    IF text = KW_REGISTER
    THEN afterState(updateState(user, WAITING_NAME, sheet, t, "user.updateState" \in F),
                    plain(REGISTRATION_START))
    ELSE IF text = KW_HELP
    THEN answered(user, sheet, plain(HELP))
    ELSE answered(user, sheet, plain(WELCOME))

\* nameStored moving on to a state that is none of the four: property C17
\* tells the two apart
nameStoredElsewhere(text, d, t, F) ==
    afterDataAndState(d,
                      updateState(d.user, "AWAITING_AGE", d.users, t,
                                  "user.updateState" \in F),
                      format(NAME_CONFIRMED, <<<<NameKey, text>>>>))

\* WAITING_NAME, name accepted: d is the result of updateData({ name: text })
nameStored(text, d, t, F) ==
    afterDataAndState(d,
                      updateState(d.user, WAITING_AGE, d.users, t, "user.updateState" \in F),
                      format(NAME_CONFIRMED, <<<<NameKey, text>>>>))

\* handleWaitingNameState storing the trimmed text: property C9 tells the
\* two apart
handleWaitingNameStateTrimmed(text, user, sheet, t, F) ==
    IF Len(trim(text)) < 2
    THEN answered(user, sheet, plain(INVALID_NAME))
    ELSE nameStored(trim(text),
                    updateData(user, <<<<NameKey, trim(text)>>>>, sheet, t,
                               "user.updateData" \in F),
                    t, F)

handleWaitingNameState(text, user, sheet, t, F) ==
    IF Len(trim(text)) < 2
    THEN answered(user, sheet, plain(INVALID_NAME))
    ELSE nameStored(text,
                    updateData(user, <<<<NameKey, text>>>>, sheet, t,
                               "user.updateData" \in F),
                    t, F)

\* WAITING_AGE, age accepted: d is the result of updateData({ age })
ageStored(age, d, t, F) ==
    afterDataAndState(d,
                      updateState(d.user, REGISTERED, d.users, t, "user.updateState" \in F),
                      format(REGISTRATION_COMPLETED,
                             << <<NameKey, nameOrEmpty(d.user.data)>>,
                                <<AgeKey, toString(age)>> >>))

\* ageChecked refusing the age 120: property C8 tells the two apart
ageCheckedBelow120(age, user, sheet, t, F) ==
    IF isNaN(age) \/ age.val < 1 \/ age.val >= 120
    THEN answered(user, sheet, plain(INVALID_AGE))
    ELSE ageStored(age.val,
                   updateData(user, <<<<AgeKey, age.val>>>>, sheet, t,
                              "user.updateData" \in F),
                   t, F)

\* ageChecked taking the age 0: property C32 tells the two apart
ageCheckedFromZero(age, user, sheet, t, F) ==
    IF isNaN(age) \/ age.val < 0 \/ age.val > 120
    THEN answered(user, sheet, plain(INVALID_AGE))
    ELSE ageStored(age.val,
                   updateData(user, <<<<AgeKey, age.val>>>>, sheet, t,
                              "user.updateData" \in F),
                   t, F)

\* the body of handleWaitingAgeState once parseInt(text) is known
ageChecked(age, user, sheet, t, F) ==
    IF isNaN(age) \/ age.val < 1 \/ age.val > 120
    THEN answered(user, sheet, plain(INVALID_AGE))
    ELSE ageStored(age.val,
                   updateData(user, <<<<AgeKey, age.val>>>>, sheet, t,
                              "user.updateData" \in F),
                   t, F)

handleWaitingAgeState(text, user, sheet, t, F) ==
    ageChecked(parseInt(text), user, sheet, t, F)

\* handleRegisteredState sending a registered user back to the start:
\* property C10 tells the two apart
handleRegisteredStateReset(text, user, sheet, t, F) ==
    IF text = KW_HELP
    THEN answered(user, sheet, plain(HELP))
    ELSE afterState(updateState(user, INITIAL, sheet, t, "user.updateState" \in F),
                    format(DEFAULT_RESPONSE, <<<<NameKey, nameOrEmpty(user.data)>>>>))

handleRegisteredState(text, user, sheet, t, F) ==
    IF text = KW_HELP
    THEN answered(user, sheet, plain(HELP))
    ELSE answered(user, sheet,
                  format(DEFAULT_RESPONSE, <<<<NameKey, nameOrEmpty(user.data)>>>>))

\* the switch on user.state
handleByState(text, user, sheet, t, F) ==
    CASE user.state = INITIAL -> handleInitialState(text, user, sheet, t, F)
      [] user.state = WAITING_NAME -> handleWaitingNameState(text, user, sheet, t, F)
      [] user.state = WAITING_AGE -> handleWaitingAgeState(text, user, sheet, t, F)
      [] user.state = REGISTERED -> handleRegisteredState(text, user, sheet, t, F)
      [] OTHER -> answered(user, sheet, plain(ERROR))

\* the outcome of handling one event
Outcome(u, m, calls, failed, hung, errors) ==
    [users |-> u, messages |-> m, calls |-> calls, failed |-> failed,
     hung |-> hung, errors |-> errors]

\* one log line per store operation that failed
storeErrors(failed) == [i \in 1..Cardinality(failed) |-> "store error"]

\* the end of TextHandler.handle: the reply, or the catch block.  User.save,
\* User.findByUserId and Message.save catch what the store throws, and
\* LineService.post catches what the transport throws, so nothing is thrown
\* inside the try block
textReplied(event, m, failed0, r, thrown) ==
    IF thrown
    THEN Outcome(r.users, m.messages,
                 IF event.replyToken # ""
                 THEN <<replyText(event.replyToken, ERROR)>> ELSE << >>,
                 failed0 \cup r.failed, FALSE,
                 Append(storeErrors(failed0 \cup r.failed), "TextHandler error"))
    ELSE IF r.response.hangs
    THEN Outcome(r.users, m.messages, << >>, failed0 \cup r.failed, TRUE,
                 storeErrors(failed0 \cup r.failed))
    ELSE Outcome(r.users, m.messages, <<replyText(event.replyToken, r.response.text)>>,
                 failed0 \cup r.failed, FALSE, storeErrors(failed0 \cup r.failed))

\* no user was found: new User(userId), user.save(), then the switch
textNewUser(event, m, failed0, user, created, t, F) ==
    textReplied(event, m, failed0 \cup failedIf(~created.ok, "user.create"),
                handleByState(event.text, user, created.users, t, F), FALSE)

\* found is what User.findByUserId returned
textFound(event, sheet, m, found, t, F) ==
    IF found = Null
    THEN textNewUser(event, m,
                     failedIf(~m.ok, "message.save")
                     \cup failedIf("user.find" \in F, "user.find"),
                     NewUser(event.userId, Null, t),
                     save(NewUser(event.userId, Null, t), sheet, t, "user.create" \in F),
                     t, F)
    ELSE textReplied(event, m,
                     failedIf(~m.ok, "message.save"),
                     handleByState(event.text, found[1], sheet, t, F), FALSE)

\* TextHandle testing the user id alone: property C36 tells the two apart
TextHandleAnyText(event, sheet, msgs, t, F) ==
    IF event.userId = ""
    THEN Outcome(sheet, msgs, << >>, {}, FALSE, << >>)
    ELSE textFound(event, sheet,
                   saveMessage(msgs, event.userId, "text", <<<<"text", event.text>>>>, t,
                               "message.save" \in F),
                   findByUserId(sheet, event.userId, "user.find" \in F),
                   t, F)

\* TextHandler.handle
TextHandle(event, sheet, msgs, t, F) ==
    IF event.userId = "" \/ event.text = << >>
    THEN Outcome(sheet, msgs, << >>, {}, FALSE, << >>)
    ELSE textFound(event, sheet,
                   saveMessage(msgs, event.userId, "text", <<<<"text", event.text>>>>, t,
                               "message.save" \in F),
                   findByUserId(sheet, event.userId, "user.find" \in F),
                   t, F)

(***************************************************************************)
(* ImageHandler.handle.                                                    *)
(***************************************************************************)
imageSaved(event, sheet, m) ==
    Outcome(sheet, m.messages, <<sendLoadingAnimation(event.userId)>>,
            failedIf(~m.ok, "message.save"), FALSE,
            storeErrors(failedIf(~m.ok, "message.save")))

\* ImageHandle creating a row for its user as TextHandler does: property
\* C35 tells the two apart
ImageHandleCreating(event, sheet, msgs, t, F) ==
    IF event.userId = "" \/ event.msgId = ""
    THEN Outcome(sheet, msgs, << >>, {}, FALSE, <<"Missing userId or messageId">>)
    ELSE imageSaved(event,
                    IF findByUserId(sheet, event.userId, FALSE) = Null
                    THEN save(NewUser(event.userId, Null, t), sheet, t, FALSE).users
                    ELSE sheet,
                    saveMessage(msgs, event.userId, "image",
                                <<<<"messageId", event.msgId>>>>, t, "message.save" \in F))

ImageHandle(event, sheet, msgs, t, F) ==
    IF event.userId = "" \/ event.msgId = ""
    THEN Outcome(sheet, msgs, << >>, {}, FALSE, <<"Missing userId or messageId">>)
    ELSE imageSaved(event, sheet,
                    saveMessage(msgs, event.userId, "image",
                                <<<<"messageId", event.msgId>>>>, t, "message.save" \in F))

(***************************************************************************)
(* PostbackHandler.  Postback data carry no percent escapes here, so       *)
(* decodeURIComponent leaves keys and values as they are.                  *)
(***************************************************************************)
RECURSIVE split(_, _)
split(s, sep) ==
    IF indexOf(s, <<sep>>) < 0 THEN <<s>>
    ELSE <<SubSeq(s, 1, indexOf(s, <<sep>>))>>
         \o split(SubSeq(s, indexOf(s, <<sep>>) + 2, Len(s)), sep)

\* result[key] = value when both are non-empty; kv is part.split('=')
putPair(result, kv) ==
    IF kv[1] # << >> /\ Len(kv) >= 2 /\ kv[2] # << >>
    THEN spread(result, <<<<kv[1], kv[2]>>>>)
    ELSE result

RECURSIVE parseParts(_, _)
parseParts(parts, result) ==
    IF parts = << >> THEN result
    ELSE parseParts(Tail(parts), putPair(result, split(Head(parts), "=")))

parsePostbackData(data) == parseParts(split(data, "&"), << >>)

ActionKey == <<"a", "c", "t", "i", "o", "n">>

HelpAction == <<"h", "e", "l", "p">>

postbackSaved(event, sheet, m, params) ==
    Outcome(sheet, m.messages,
            <<replyText(event.replyToken,
                        IF getKey(params, ActionKey) = <<HelpAction>>
                        THEN HELP ELSE UNKNOWN_ACTION)>>,
            failedIf(~m.ok, "message.save"), FALSE,
            storeErrors(failedIf(~m.ok, "message.save")))

postbackParsed(event, sheet, msgs, t, F, params) ==
    postbackSaved(event, sheet,
                  saveMessage(msgs, event.userId, "postback",
                              << <<"postbackData", event.data>>, <<"params", params>> >>,
                              t, "message.save" \in F),
                  params)

PostbackHandle(event, sheet, msgs, t, F) ==
    IF event.userId = "" \/ event.data = << >>
    THEN Outcome(sheet, msgs, << >>, {}, FALSE, << >>)
    ELSE postbackParsed(event, sheet, msgs, t, F, parsePostbackData(event.data))

(***************************************************************************)
(* DefaultHandler.handle: logs, sends nothing.                             *)
(***************************************************************************)
DefaultHandle(event, sheet, msgs, t, F) ==
    Outcome(sheet, msgs, << >>, {}, FALSE, << >>)

\* handler.handle(event) for the handler createHandler chose
Handle(handler, event, sheet, msgs, t, F) ==
    CASE handler = "TextHandler" -> TextHandle(event, sheet, msgs, t, F)
      [] handler = "ImageHandler" -> ImageHandle(event, sheet, msgs, t, F)
      [] handler = "PostbackHandler" -> PostbackHandle(event, sheet, msgs, t, F)
      [] OTHER -> DefaultHandle(event, sheet, msgs, t, F)

(***************************************************************************)
(* Inbound events (LineEvent), flattened: "" is an absent identifier and   *)
(* << >> an absent text.                                                   *)
(***************************************************************************)
Event(type, replyToken, userId, msgType, msgId, text, data) ==
    [type |-> type, replyToken |-> replyToken, userId |-> userId,
     msgType |-> msgType, msgId |-> msgId, text |-> text, data |-> data]

TextEvent(userId, text, replyToken) ==
    Event("message", replyToken, userId, "text", "M1", text, << >>)

NoEvent == Event("", "", "", "", "", << >>, << >>)

TextAl == <<"A", "l">>

TextThirty == <<"t", "h", "i", "r", "t", "y">>

Text30 == <<"3", "0">>

Text30abc == <<"3", "0", "a", "b", "c">>

Text30dot5 == <<"3", "0", ".", "5">>

TextNamePlaceholder == <<"{", "n", "a", "m", "e", "}">>

TextPaddedAl == <<" ", "A", "l", " ">>

TextDollarAmp == <<"A", "$", "&">>

PostbackHelp == <<"a", "c", "t", "i", "o", "n", "=", "h", "e", "l", "p">>

PostbackOther == <<"a", "c", "t", "i", "o", "n", "=", "b", "u", "y", "&", "x", "=">>

\* the events of the webhook specification
MainTexts == {KW_REGISTER, KW_HELP, TextAl, TextNamePlaceholder, Text30}

MainEvents ==
    {TextEvent("U1", x, "T") : x \in MainTexts}
    \cup {TextEvent("U2", KW_REGISTER, "T"),
          TextEvent("U1", KW_REGISTER, ""),
          TextEvent("", KW_REGISTER, "T"),
          TextEvent("U1", << >>, "T"),
          Event("message", "T", "U2", "image", "M2", << >>, << >>),
          Event("message", "T", "U1", "image", "", << >>, << >>),
          Event("postback", "T", "U1", "", "", << >>, PostbackHelp),
          Event("postback", "T", "U2", "", "", << >>, PostbackOther),
          Event("follow", "T", "U2", "", "", << >>, << >>),
          Event("message", "T", "U1", "sticker", "M3", << >>, << >>),
          Event("message", "T", "U1", "", "", << >>, << >>)}

PairHeads ==
    {TextEvent("U1", KW_REGISTER, "T"), TextEvent("U1", TextNamePlaceholder, "T"),
     Event("follow", "T", "U2", "", "", << >>, << >>)}

PairTails ==
    {TextEvent("U1", TextAl, "T"), Event("postback", "T", "U1", "", "", << >>, PostbackHelp)}

MainBatches ==
    {<< >>} \cup {<<e>> : e \in MainEvents}
    \cup {<<e, f>> : e \in PairHeads, f \in PairTails}

\* the events of the registration scenario: texts of one user
ScenarioTexts == {KW_REGISTER, TextAl, TextThirty, Text30}

ScenarioBatches == {<<TextEvent("U1", x, "T")>> : x \in ScenarioTexts}

\* the store operations that fail together during one event: none, any one
\* of them, or all of them
FailureSets == {{}} \cup {{op} : op \in StoreOps} \cup {StoreOps}

(***************************************************************************)
(* The sheets outlive the invocations.  A store the model starts from is   *)
(* the one left by earlier text events of user U1, replayed through        *)
(* TextHandler at the times -n .. -1; each entry of a history is a text    *)
(* and the store operations that failed while it was handled.              *)
(***************************************************************************)
Past(text, F) == [text |-> text, F |-> F]

storeOf(outcome) == [users |-> outcome.users, messages |-> outcome.messages]

RECURSIVE Replay(_, _, _)
Replay(store, history, t) ==
    IF history = << >> THEN store
    ELSE Replay(storeOf(TextHandle(TextEvent("U1", Head(history).text, "T"),
                                   store.users, store.messages, t, Head(history).F)),
                Tail(history), t + 1)

StoreAfter(history) ==
    Replay([users |-> << >>, messages |-> << >>], history, 0 - Len(history))

MainHistories ==
    {<< >>,
     <<Past(KW_REGISTER, {})>>,
     <<Past(KW_REGISTER, {}), Past(TextAl, {})>>,
     <<Past(KW_REGISTER, {}), Past(TextAl, {}), Past(Text30, {})>>}

(***************************************************************************)
(* doPost.                                                                 *)
(***************************************************************************)
NoLast ==
    [index |-> 0, event |-> NoEvent, handler |-> "", before |-> << >>,
     origin |-> << >>, failed |-> {}, prior |-> {}, createFailed |-> FALSE,
     hung |-> FALSE]

\* no call of LineService has been made
NoSend == [pc |-> "none"]

\* the keys of the script properties
ConfigKeys == {"K1", "K2"}

\* the invocations alive at the same time, each with its EnvConfig instance
ConfigInstances == {1, 2}

\* a map without entries: every key is undefined
EmptyMap == [key \in ConfigKeys |-> Null]

\* no property is set, nothing is cached, no call of EnvConfig has been made
NoEnv ==
    [properties |-> EmptyMap,
     cache |-> EmptyMap,
     envCache |-> [i \in ConfigInstances |-> EmptyMap],
     call |-> [op |-> "none", key |-> "", defaultValue |-> "", result |-> "",
               afterClear |-> FALSE]]

\* no operation has been called on the store directly
NoCall == [kind |-> "none"]

\* the model starts on the given store, between two invocations (batch
\* << >>, pc0 "idle") or with the batch of an invocation just parsed
InitOn(store, batch, pc0) ==
    /\ users = store.users
    /\ messages = store.messages
    /\ pending = batch
    /\ pc = pc0
    /\ now = 0
    /\ sent = << >>
    /\ last = NoLast
    /\ batchLen = Len(batch)
    /\ visited = 0
    /\ faulty = FALSE
    /\ storeCall = NoCall
    /\ procs = << >>
    /\ sending = NoSend
    /\ logs = << >>
    /\ env = NoEnv

Init == \E h \in MainHistories : InitOn(StoreAfter(h), << >>, "idle")

\* a webhook call arrives with a batch of events; an absent body is the
\* empty batch
Receive(batches, maxEvents) ==
    /\ pc \in {"idle", "finished", "killed"}
    /\ \E b \in batches :
          /\ now + Len(b) <= maxEvents
          /\ pending' = b
          /\ batchLen' = Len(b)
    /\ pc' = "running"
    /\ visited' = 0
    /\ sent' = << >>
    /\ last' = NoLast
    /\ UNCHANGED <<users, messages, now, faulty, storeCall, procs, sending, logs, env>>

StartInvocation == Receive(MainBatches, MaxEvents)

\* the calls of one event, tagged with the event's position in the batch
tagged(calls, index) ==
    [i \in 1..Len(calls) |->
        [api |-> calls[i].api, to |-> calls[i].to, text |-> calls[i].text,
         index |-> index]]

\* the state after the forEach callback of one event, whose outcome is r
Commit(event, handler, createFails, r) ==
    /\ users' = r.users
    /\ messages' = r.messages
    /\ sent' = sent \o tagged(r.calls, visited + 1)
    /\ pc' = IF r.hung THEN "hung" ELSE "running"
    /\ last' = [index |-> visited + 1, event |-> event,
                handler |-> IF createFails THEN "" ELSE handler,
                before |-> users,
                origin |-> IF visited = 0 THEN users ELSE last.origin,
                failed |-> r.failed,
                prior |-> last.prior \cup last.failed,
                createFailed |-> createFails, hung |-> r.hung]
    /\ faulty' = (faulty \/ r.failed # {})

\* forEach handing every event the store the invocation started on:
\* property C28 tells the two apart
DispatchEventStale ==
    /\ pc = "running"
    /\ pending # << >>
    /\ \E F \in FailureSets :
          Commit(Head(pending), createHandler(Head(pending)), FALSE,
                 Handle(createHandler(Head(pending)), Head(pending),
                        IF visited = 0 THEN users ELSE last.origin, messages, now, F))
    /\ pending' = Tail(pending)
    /\ visited' = visited + 1
    /\ now' = now + 1
    /\ UNCHANGED <<batchLen, storeCall, procs, sending, logs, env>>

\* one callback of events.forEach: createHandler and handle, inside the
\* per-event try/catch.  createFails: a handler constructor throws, which
\* the catch of the callback logs
DispatchEvent ==
    /\ pc = "running"
    /\ pending # << >>
    /\ \/ Commit(Head(pending), createHandler(Head(pending)), TRUE,
                 Outcome(users, messages, << >>, {}, FALSE, <<"Error handling event">>))
       \/ \E F \in FailureSets :
             Commit(Head(pending), createHandler(Head(pending)), FALSE,
                    Handle(createHandler(Head(pending)), Head(pending),
                           users, messages, now, F))
    /\ pending' = Tail(pending)
    /\ visited' = visited + 1
    /\ now' = now + 1
    /\ UNCHANGED <<batchLen, storeCall, procs, sending, logs, env>>

\* forEach has visited every event: "All events processed successfully"
FinishInvocation ==
    /\ pc = "running"
    /\ pending = << >>
    /\ pc' = "finished"
    /\ UNCHANGED <<sending, logs, env, users, messages, pending, now, sent, last, batchLen, visited, faulty,
                   storeCall, procs>>

\* a handler that does not return is ended by the platform's limit on the
\* execution time, and the invocation with it
Timeout ==
    /\ pc = "hung"
    /\ pc' = "killed"
    /\ UNCHANGED <<sending, logs, env, users, messages, pending, now, sent, last, batchLen, visited, faulty,
                   storeCall, procs>>

Next == StartInvocation \/ DispatchEvent \/ FinishInvocation \/ Timeout

Spec == Init /\ [][Next]_vars

(***************************************************************************)
(* The registration scenario: text events of user U1, one per invocation,  *)
(* on a store that starts empty.                                           *)
(***************************************************************************)
InitScenario == InitOn(StoreAfter(<< >>), << >>, "idle")

StartScenario == Receive(ScenarioBatches, MaxScenario)

NextScenario == StartScenario \/ DispatchEvent \/ FinishInvocation

SpecScenario == InitScenario /\ [][NextScenario]_vars

(***************************************************************************)
(* One step of the conversation: an invocation whose batch is one text     *)
(* event of user U1, or the same event twice, on each store a short        *)
(* history leaves, for every text of a bounded set.                        *)
(***************************************************************************)
StepAlphabet == {"0", "1", "7", "a", " ", "-", "."}

RECURSIVE TextsUpTo(_)
TextsUpTo(n) ==
    IF n = 0 THEN {<< >>}
    ELSE TextsUpTo(n - 1) \cup {Append(x, c) : x \in TextsUpTo(n - 1), c \in StepAlphabet}

AgeProbe == (0 - 2)..MaxProbe

TextHex == <<"0", "x", "1", "f">>

TextHi == <<"h", "i">>

StepTexts ==
    (TextsUpTo(MaxTextLen) \ {<< >>})
    \cup {toString(n) : n \in AgeProbe}
    \cup {KW_REGISTER, KW_HELP, TextAl, TextThirty, Text30, Text30abc, Text30dot5,
          TextNamePlaceholder, TextPaddedAl, TextDollarAmp, TextHex, TextHi}

StepHistories ==
    {<< >>,
     <<Past(TextHi, {})>>,
     <<Past(KW_REGISTER, {})>>,
     <<Past(KW_REGISTER, {}), Past(TextAl, {})>>,
     <<Past(KW_REGISTER, {}), Past(TextAl, {"user.updateState"})>>,
     <<Past(KW_REGISTER, {}), Past(TextAl, {}), Past(Text30, {})>>}

StepBatches ==
    {<<TextEvent("U1", x, "T")>> : x \in StepTexts}
    \cup {<<TextEvent("U1", x, "T"), TextEvent("U1", x, "T")>> : x \in StepTexts}

InitStep == \E h \in StepHistories, b \in StepBatches : InitOn(StoreAfter(h), b, "running")

NextStep == DispatchEvent \/ FinishInvocation \/ Timeout

SpecStep == InitStep /\ [][NextStep]_vars


(***************************************************************************)
(* The store on its own: User.save, User.findByUserId, User.updateData and *)
(* User.updateState called directly, in any order, with any record of a    *)
(* bounded set.  storeCall keeps the last call, what it was given, the     *)
(* Users sheet before it and what it returned.                             *)
(***************************************************************************)
StoreUserIds == {"U1", "U2"}

StoreNames == {Null, <<TextAl>>}

StoreStates == {INITIAL, REGISTERED}

StoreData == {<< >>, << <<NameKey, TextAl>>, <<AgeKey, 30>> >>}

EmailKey == <<"e", "m", "a", "i", "l">>

\* the argument of updateData: one attribute
StoreUpdates == {<<<<NameKey, TextHi>>>>, <<<<AgeKey, 7>>>>, <<<<EmailKey, TextHi>>>>}

\* the User objects a caller may hold at time t: built now, never or just
\* now updated
StoreUsers(t) ==
    [userId : StoreUserIds, displayName : StoreNames, state : StoreStates,
     data : StoreData, createdAt : {t}, updatedAt : {Null, <<t>>}]

\* the variables the store calls leave alone
handlerVars ==
    <<messages, pending, pc, sent, last, batchLen, visited, faulty, procs, sending, logs, env>>

\* user.save()
StoreSave ==
    /\ now < MaxCalls
    /\ \E u \in StoreUsers(now), fail \in BOOLEAN :
          /\ users' = save(u, users, now, fail).users
          /\ storeCall' = [kind |-> "save", user |-> u, ok |-> ~fail, before |-> users]
    /\ now' = now + 1
    /\ UNCHANGED handlerVars

\* User.findByUserId(userId), right after another call
StoreFind ==
    /\ storeCall.kind # "find"
    /\ \E userId \in StoreUserIds, fail \in BOOLEAN :
          storeCall' = [kind |-> "find", userId |-> userId, ok |-> ~fail,
                        found |-> findByUserId(users, userId, fail),
                        after |-> storeCall]
    /\ UNCHANGED <<users, now>>
    /\ UNCHANGED handlerVars

\* the state after user.updateData / user.updateState, whose result is r
StoreUpdated(kind, user, arg, r) ==
    /\ users' = r.users
    /\ storeCall' = [kind |-> kind, user |-> user, arg |-> arg, ok |-> r.ok,
                     updated |-> r.user, before |-> users]

\* user.updateData(newData) on the object found for a user id
StoreUpdateData ==
    /\ now < MaxCalls
    /\ \E userId \in StoreUserIds, newData \in StoreUpdates, fail \in BOOLEAN :
          /\ findByUserId(users, userId, FALSE) # Null
          /\ StoreUpdated("updateData", findByUserId(users, userId, FALSE)[1], newData,
                          updateData(findByUserId(users, userId, FALSE)[1], newData,
                                     users, now, fail))
    /\ now' = now + 1
    /\ UNCHANGED handlerVars

\* user.updateState(newState) on the object found for a user id
StoreUpdateState ==
    /\ now < MaxCalls
    /\ \E userId \in StoreUserIds, newState \in StoreStates, fail \in BOOLEAN :
          /\ findByUserId(users, userId, FALSE) # Null
          /\ StoreUpdated("updateState", findByUserId(users, userId, FALSE)[1], newState,
                          updateState(findByUserId(users, userId, FALSE)[1], newState,
                                      users, now, fail))
    /\ now' = now + 1
    /\ UNCHANGED handlerVars

\* the sheets are empty, or hold what the first text of U1 left
StoreHistories == {<< >>, <<Past(KW_REGISTER, {})>>}

InitStore == \E h \in StoreHistories : InitOn(StoreAfter(h), << >>, "idle")

NextStore == StoreSave \/ StoreFind \/ StoreUpdateData \/ StoreUpdateState

SpecStore == InitStore /\ [][NextStore]_vars

(***************************************************************************)
(* Invocations running at the same time.  The platform runs each webhook   *)
(* call in an execution of its own, with no lock around the handlers, so   *)
(* the calls a handler makes on the sheets and on the LINE API interleave  *)
(* with those of another invocation.  Each invocation here carries one     *)
(* event; procs[p] is the handler of invocation p: where it stands, the    *)
(* User it looked up (found), the User object it holds (user), the         *)
(* response it computed, and the times of its lookup (readAt) and of its   *)
(* state handler (wroteAt).                                                *)
(***************************************************************************)
Invocations == {1, 2}

RaceTexts == {KW_REGISTER, TextAl, TextHi, Text30}

RaceEvents ==
    {TextEvent("U1", x, "T") : x \in RaceTexts}
    \cup {TextEvent("", KW_REGISTER, "T"),
          Event("message", "T", "U1", "image", "M2", << >>, << >>),
          Event("message", "T", "U1", "image", "", << >>, << >>),
          Event("postback", "T", "U1", "", "", << >>, PostbackHelp),
          Event("postback", "T", "U1", "", "", << >>, << >>),
          Event("follow", "T", "U1", "", "", << >>, << >>)}

NewProc(event) ==
    [pc |-> "start", event |-> event, handler |-> createHandler(event),
     found |-> Null, user |-> Null, response |-> Null,
     savedAt |-> 0, readAt |-> 0, wroteAt |-> 0]

\* the variables of doPost's loop, which these invocations do not use
loopVars == <<pending, pc, last, batchLen, visited, faulty, storeCall, sending, logs, env>>

\* every step of an invocation reads the clock, which moves on
Tick == now' = now + 1

\* a webhook call arrives while others may still run
RaceReceive ==
    /\ Len(procs) < Cardinality(Invocations)
    /\ \E e \in RaceEvents : procs' = Append(procs, NewProc(e))
    /\ UNCHANGED <<users, messages, sent, now>>
    /\ UNCHANGED loopVars

\* the handler's guard on the fields of its event
passesGuard(proc) ==
    CASE proc.handler = "TextHandler" ->
            proc.event.userId # "" /\ proc.event.text # << >>
      [] proc.handler = "ImageHandler" ->
            proc.event.userId # "" /\ proc.event.msgId # ""
      [] proc.handler = "PostbackHandler" ->
            proc.event.userId # "" /\ proc.event.data # << >>
      [] OTHER -> FALSE

\* the content of the Message the handler builds
messageKind(proc) ==
    CASE proc.handler = "TextHandler" -> "text"
      [] proc.handler = "ImageHandler" -> "image"
      [] proc.handler = "PostbackHandler" -> "postback"

messageContent(proc) ==
    CASE proc.handler = "TextHandler" -> <<<<"text", proc.event.text>>>>
      [] proc.handler = "ImageHandler" -> <<<<"messageId", proc.event.msgId>>>>
      [] proc.handler = "PostbackHandler" ->
            << <<"postbackData", proc.event.data>>,
               <<"params", parsePostbackData(proc.event.data)>> >>

\* the guard, then new Message(...).save(); an event that fails the guard,
\* or that DefaultHandler takes, ends here
RaceSaveMessage(p) ==
    /\ procs[p].pc = "start"
    /\ IF passesGuard(procs[p])
       THEN /\ messages' = saveMessage(messages, procs[p].event.userId,
                                       messageKind(procs[p]), messageContent(procs[p]),
                                       now, FALSE).messages
            /\ procs' = [procs EXCEPT ![p].pc = "saved", ![p].savedAt = now]
       ELSE /\ procs' = [procs EXCEPT ![p].pc = "done"]
            /\ UNCHANGED messages
    /\ Tick
    /\ UNCHANGED <<users, sent>>
    /\ UNCHANGED loopVars

\* TextHandler: User.findByUserId(userId)
RaceFind(p) ==
    /\ procs[p].pc = "saved"
    /\ procs[p].handler = "TextHandler"
    /\ procs' = [procs EXCEPT
                    ![p].pc = "found",
                    ![p].found = findByUserId(users, procs[p].event.userId, FALSE),
                    ![p].user = findByUserId(users, procs[p].event.userId, FALSE),
                    ![p].readAt = now]
    /\ Tick
    /\ UNCHANGED <<users, messages, sent>>
    /\ UNCHANGED loopVars

\* TextHandler: no user was found: new User(userId) and user.save()
RaceCreate(p) ==
    /\ procs[p].pc = "found"
    /\ procs[p].found = Null
    /\ users' = save(NewUser(procs[p].event.userId, Null, now), users, now, FALSE).users
    /\ procs' = [procs EXCEPT
                    ![p].pc = "created",
                    ![p].user = <<NewUser(procs[p].event.userId, Null, now)>>]
    /\ Tick
    /\ UNCHANGED <<messages, sent>>
    /\ UNCHANGED loopVars

\* the state after the state handler of invocation p returned r
RaceHandled(p, r) ==
    /\ users' = r.users
    /\ procs' = [procs EXCEPT
                    ![p].pc = IF r.response.hangs THEN "hung" ELSE "handled",
                    ![p].user = <<r.user>>,
                    ![p].response = <<r.response.text>>,
                    ![p].wroteAt = now]

\* TextHandler: the switch on user.state, with the writes of the state
\* handler it calls
RaceHandle(p) ==
    /\ \/ procs[p].pc = "found" /\ procs[p].found # Null
       \/ procs[p].pc = "created"
    /\ RaceHandled(p, handleByState(procs[p].event.text, procs[p].user[1], users, now, {}))
    /\ Tick
    /\ UNCHANGED <<messages, sent>>
    /\ UNCHANGED loopVars

\* the call on the LINE API that ends the handler
lineCall(proc) ==
    CASE proc.handler = "TextHandler" -> replyText(proc.event.replyToken, proc.response[1])
      [] proc.handler = "ImageHandler" -> sendLoadingAnimation(proc.event.userId)
      [] proc.handler = "PostbackHandler" ->
            replyText(proc.event.replyToken,
                      IF getKey(parsePostbackData(proc.event.data), ActionKey)
                         = <<HelpAction>>
                      THEN HELP ELSE UNKNOWN_ACTION)

RaceReply(p) ==
    /\ \/ procs[p].pc = "handled"
       \/ procs[p].pc = "saved" /\ procs[p].handler # "TextHandler"
    /\ sent' = sent \o tagged(<<lineCall(procs[p])>>, p)
    /\ procs' = [procs EXCEPT ![p].pc = "done"]
    /\ Tick
    /\ UNCHANGED <<users, messages>>
    /\ UNCHANGED loopVars

\* one step of one of the running invocations
Running == 1..Len(procs)

SaveMessageStep == \E p \in Running : RaceSaveMessage(p)

FindStep == \E p \in Running : RaceFind(p)

CreateStep == \E p \in Running : RaceCreate(p)

HandleStep == \E p \in Running : RaceHandle(p)

ReplyStep == \E p \in Running : RaceReply(p)

InitRace == \E h \in MainHistories : InitOn(StoreAfter(h), << >>, "idle")

NextRace ==
    RaceReceive \/ SaveMessageStep \/ FindStep \/ CreateStep \/ HandleStep \/ ReplyStep

SpecRace == InitRace /\ [][NextRace]_vars

(***************************************************************************)
(* The message history.  getMessagesByUserId reads every row, keeps those  *)
(* of the user, sorts them with the comparator dateB - dateA (the sort is  *)
(* stable: rows of equal time keep the order of the sheet) and cuts the    *)
(* result with slice(0, limit).                                            *)
(***************************************************************************)
\* sortRowsAscending's insertion: property C20 tells the two apart
insertRowAscending(sorted, row) ==
    LET before == {i \in 1..Len(sorted) : sorted[i][4] <= row[4]}
    IN  SubSeq(sorted, 1, Cardinality(before)) \o <<row>>
        \o SubSeq(sorted, Cardinality(before) + 1, Len(sorted))

\* row put into a sequence sorted by time, newest first, behind the rows
\* that are as new or newer
insertRow(sorted, row) ==
    LET before == {i \in 1..Len(sorted) : sorted[i][4] >= row[4]}
    IN  SubSeq(sorted, 1, Cardinality(before)) \o <<row>>
        \o SubSeq(sorted, Cardinality(before) + 1, Len(sorted))

\* messages.sort((a, b) => dateB.getTime() - dateA.getTime())
RECURSIVE sortRows(_)
sortRows(rows) ==
    IF rows = << >> THEN << >>
    ELSE insertRow(sortRows(SubSeq(rows, 1, Len(rows) - 1)), rows[Len(rows)])

\* Array.prototype.slice(0, end): a negative end counts from the end
slice(s, end) ==
    IF end >= 0
    THEN SubSeq(s, 1, IF end < Len(s) THEN end ELSE Len(s))
    ELSE SubSeq(s, 1, IF Len(s) + end > 0 THEN Len(s) + end ELSE 0)

\* SpreadsheetService.getMessagesByUserId
getMessagesByUserId(sheet, userId, limit) ==
    slice(sortRows(SelectSeq(sheet, LAMBDA row : row[1] = userId)), limit)

\* the Message built from a row
messageOfRow(row) ==
    [userId |-> row[1], type |-> row[2], content |-> JSON_parse(row[3]),
     timestamp |-> row[4]]

\* Message.getHistoryByUserId: a failure of the store is caught, logged, and
\* turned into the empty history
getHistoryByUserId(sheet, userId, limit, fail) ==
    IF fail THEN << >>
    ELSE [i \in 1..Len(getMessagesByUserId(sheet, userId, limit)) |->
             messageOfRow(getMessagesByUserId(sheet, userId, limit)[i])]

\* the times of the rows, in no order
Stamps == {1, 2, 3}

QueryLimits == (0 - 1)..MaxLimit

\* saveMessageData(row) with a row of any user and time
HistoryAppend ==
    /\ Len(messages) < MaxRows
    /\ \E userId \in StoreUserIds, t \in Stamps :
          messages' = saveMessageData(messages,
                                      messageRow(userId, "text", <<<<"text", TextHi>>>>, t))
    /\ storeCall' = [kind |-> "append"]
    /\ UNCHANGED <<users, now>>
    /\ UNCHANGED <<pending, pc, sent, last, batchLen, visited, faulty, procs, sending, logs, env>>

\* Message.getHistoryByUserId(userId, limit)
HistoryQuery ==
    /\ \E userId \in StoreUserIds, limit \in QueryLimits, fail \in BOOLEAN :
          storeCall' = [kind |-> "history", userId |-> userId, limit |-> limit,
                        ok |-> ~fail,
                        result |-> getHistoryByUserId(messages, userId, limit, fail)]
    /\ UNCHANGED <<users, messages, now>>
    /\ UNCHANGED <<pending, pc, sent, last, batchLen, visited, faulty, procs, sending, logs, env>>

InitHistory == InitOn(StoreAfter(<< >>), << >>, "idle")

NextHistory == HistoryAppend \/ HistoryQuery

SpecHistory == InitHistory /\ [][NextHistory]_vars

(***************************************************************************)
(* Logger and the Logs sheet.  A log line goes to the console and, when    *)
(* the logger is initialised and the spreadsheet id is set, to the Logs    *)
(* sheet; neither saveLog nor Logger.saveToSheet lets a failure out.       *)
(* LogModes are the conditions a line can meet.                            *)
(***************************************************************************)
LogModes == {"ok", "fails", "no id", "not initialised"}

\* SpreadsheetService.saveLog: what became of the row, and what was raised
saveLog(mode) ==
    IF mode = "no id" THEN [row |-> "skipped", raised |-> FALSE]
    ELSE IF mode = "fails" THEN [row |-> "failed", raised |-> FALSE]
    ELSE [row |-> "saved", raised |-> FALSE]

\* saveToSheet without its try block: property C26 tells the two apart
saveToSheetRaising(mode) ==
    IF mode = "fails" THEN [row |-> "failed", raised |-> TRUE]
    ELSE IF mode = "ok" THEN [row |-> "saved", raised |-> FALSE]
    ELSE [row |-> "skipped", raised |-> FALSE]

\* Logger.saveToSheet
saveToSheet(mode) ==
    IF mode # "not initialised"
    THEN IF saveLog(mode).raised
         THEN [row |-> "failed", raised |-> FALSE]
         ELSE saveLog(mode)
    ELSE [row |-> "skipped", raised |-> FALSE]

\* Logger.log / Logger.error: the line written
logLine(level, message, mode) ==
    [level |-> level, message |-> message, row |-> saveToSheet(mode).row,
     raised |-> saveToSheet(mode).raised]

(***************************************************************************)
(* LineService at the level of its calls.  An Answer is what               *)
(* UrlFetchApp.fetch does with a request: it raises (the network failed)   *)
(* or returns a response with a code (muteHttpExceptions is set).          *)
(***************************************************************************)
MAX_MESSAGE_LENGTH == 4000

ResponseCodes == {200, 302, 429}

Answers ==
    {[raised |-> FALSE, code |-> c, body |-> "response body"] : c \in ResponseCodes}
    \cup {[raised |-> TRUE, code |-> 0, body |-> "Address unavailable"]}

\* post letting out what fetch raises: property C24 tells the two apart
postRaising(answer, mode) ==
    [result |-> [code |-> IF answer.raised THEN 500 ELSE answer.code,
                 body |-> answer.body],
     lines |-> <<logLine("INFO", "LINE API response code", mode)>>,
     raised |-> answer.raised]

\* LineService.post: the {code, body} returned, the lines logged, and
\* whether anything is raised to the caller
post(answer, mode) ==
    IF answer.raised
    THEN [result |-> [code |-> 500, body |-> answer.body],
          lines |-> <<logLine("ERROR", "Error in post", mode)>>,
          raised |-> FALSE]
    ELSE [result |-> [code |-> answer.code, body |-> answer.body],
          lines |-> <<logLine("INFO", "LINE API response code", mode)>>
                    \o (IF answer.code >= 400
                        THEN <<logLine("ERROR", "LINE API error", mode)>>
                        ELSE << >>),
          raised |-> FALSE]

\* LineService.pushText: the request posted
pushText(userId, text) == [api |-> "push", to |-> userId, text |-> text]

\* a wait of no length: property C22 tells the two apart
sleepNot(ms) == [api |-> "sleep", to |-> "", text |-> << >>, ms |-> 0]

\* Utilities.sleep(ms)
sleep(ms) == [api |-> "sleep", to |-> "", text |-> << >>, ms |-> ms]

\* the texts sent: of each length a text whose characters repeat with a
\* period that divides no chunk length
SendLetters == <<"a", "b", "c", "d", "e", "f", "g">>

LongText(length) == [i \in 1..length |-> SendLetters[(i % 7) + 1]]

SendLengths == {0, 1, 3999, 4000, 4001, 8000, 8001, 9000}

\* a call of LineService: its arguments, its locals, the answers its posts
\* got and, once it is over, what it returned or that it raised
Sending(pc0, call, text, remainingText, messageCount, mode, answers, results,
        returned) ==
    [pc |-> pc0, call |-> call, userId |-> "U1", replyToken |-> "T", text |-> text,
     remainingText |-> remainingText, messageCount |-> messageCount, mode |-> mode,
     answers |-> answers, results |-> results, returned |-> returned,
     raised |-> FALSE]

sendVars == <<users, messages, pending, pc, now, last, batchLen, visited, faulty,
              storeCall, procs, env>>

\* one post of a call that is made of a single post
Posted(call, request, answer, mode) ==
    /\ sent' = Append(sent, request)
    /\ logs' = logs \o post(answer, mode).lines
    /\ sending' = [Sending("returned", call, request.text, << >>, 0, mode,
                           <<answer>>, <<post(answer, mode)>>,
                           <<post(answer, mode).result>>)
                   EXCEPT !.raised = post(answer, mode).raised]
    /\ UNCHANGED sendVars

\* lineService.replyText(replyToken, text)
CallReplyText ==
    /\ sending.pc = "none"
    /\ \E answer \in Answers, mode \in LogModes, length \in {1, 4001} :
          Posted("replyText", replyText("T", LongText(length)), answer, mode)

\* lineService.pushText(userId, text)
CallPushText ==
    /\ sending.pc = "none"
    /\ \E answer \in Answers, mode \in LogModes, length \in {1, 4001} :
          Posted("pushText", pushText("U1", LongText(length)), answer, mode)

\* lineService.sendLoadingAnimation(userId)
CallLoadingAnimation ==
    /\ sending.pc = "none"
    /\ \E answer \in Answers, mode \in LogModes :
          Posted("sendLoadingAnimation", sendLoadingAnimation("U1"), answer, mode)

\* lineService.sendLongMessage(userId, replyToken, text) is entered
SendEnter ==
    /\ sending.pc = "none"
    /\ \E length \in SendLengths, mode \in LogModes :
          sending' = Sending("entered", "sendLongMessage", LongText(length), << >>, 0,
                             mode, << >>, << >>, Null)
    /\ UNCHANGED <<sent, logs>>
    /\ UNCHANGED sendVars

\* sendLongMessage up to its first post: the whole text and return true, or
\* the first part, with the rest left to the loop
SendFirst ==
    /\ sending.pc = "entered"
    /\ \E answer \in Answers :
          LET p == post(answer, sending.mode)
          IN  IF Len(sending.text) <= MAX_MESSAGE_LENGTH
              THEN /\ sent' = Append(sent, replyText(sending.replyToken, sending.text))
                   /\ logs' = logs \o p.lines
                   /\ sending' = [sending EXCEPT !.pc = "returned",
                                                 !.answers = Append(@, answer),
                                                 !.results = Append(@, p),
                                                 !.returned = <<TRUE>>]
              ELSE /\ sent' = Append(sent,
                                     replyText(sending.replyToken,
                                               substring(sending.text, 0,
                                                         MAX_MESSAGE_LENGTH)))
                   /\ logs' = logs \o p.lines
                   /\ sending' = [sending EXCEPT
                                     !.pc = "loop",
                                     !.answers = Append(@, answer),
                                     !.results = Append(@, p),
                                     !.remainingText =
                                         substring(sending.text, MAX_MESSAGE_LENGTH,
                                                   Len(sending.text)),
                                     !.messageCount = 1]
    /\ UNCHANGED sendVars

\* the loop body up to Utilities.sleep(500)
SendSleep ==
    /\ sending.pc = "loop"
    /\ Len(sending.remainingText) > 0
    /\ sent' = Append(sent, sleep(500))
    /\ sending' = [sending EXCEPT !.pc = "slept"]
    /\ UNCHANGED logs
    /\ UNCHANGED sendVars

\* the loop taking the whole of what remains: property C21 tells the two
\* apart
currentPartWhole(remainingText) == remainingText

\* currentPart cutting at the limit of LINE less the marker's length short
\* by one: property C38 tells the two apart
currentPartToLimit(remainingText) ==
    IF Len(remainingText) > 4096 - Len(ANALYSIS_CONTINUED) + 1
    THEN substring(remainingText, 0, 4096 - Len(ANALYSIS_CONTINUED) + 1)
    ELSE remainingText

\* remainingText.length > MAX ? remainingText.substring(0, MAX) : remainingText
currentPart(remainingText) ==
    IF Len(remainingText) > MAX_MESSAGE_LENGTH
    THEN substring(remainingText, 0, MAX_MESSAGE_LENGTH)
    ELSE remainingText

\* the rest of the loop body: the next part is pushed behind the marker
SendPush ==
    /\ sending.pc = "slept"
    /\ \E answer \in Answers :
          LET p == post(answer, sending.mode)
              part == currentPart(sending.remainingText)
          IN  /\ sent' = Append(sent,
                                pushText(sending.userId,
                                         ANALYSIS_CONTINUED \o part))
              /\ logs' = logs \o p.lines
              /\ sending' = [sending EXCEPT
                                !.pc = "loop",
                                !.answers = Append(@, answer),
                                !.results = Append(@, p),
                                !.remainingText =
                                    substring(sending.remainingText, Len(part),
                                              Len(sending.remainingText)),
                                !.messageCount = @ + 1]
    /\ UNCHANGED sendVars

\* the loop is over: the number of parts is logged and true is returned.
\* Nothing called inside the try block raises (post catches what fetch
\* raises), so the catch block, the only place that returns false, is not
\* entered
SendReturn ==
    /\ sending.pc = "loop"
    /\ Len(sending.remainingText) = 0
    /\ logs' = Append(logs, logLine("INFO", "Sent long message in parts", sending.mode))
    /\ sending' = [sending EXCEPT !.pc = "returned", !.returned = <<TRUE>>]
    /\ UNCHANGED sent
    /\ UNCHANGED sendVars

InitSend == InitOn(StoreAfter(<< >>), << >>, "idle")

NextSend ==
    \/ CallReplyText
    \/ CallPushText
    \/ CallLoadingAnimation
    \/ SendEnter
    \/ SendFirst
    \/ SendSleep
    \/ SendPush
    \/ SendReturn

SpecSend == InitSend /\ [][NextSend]_vars

(***************************************************************************)
(* One handler call, at the level of its try and catch blocks.  Every      *)
(* handle() logs a line on entry, runs the rest of its try block, and in   *)
(* its catch block logs the error and, for Text, Image and Postback,       *)
(* replies ERROR when the event has a reply token.  An exception enters    *)
(* the catch block from a logger call that raises, from a post that        *)
(* raises, or from the runtime (Thrown).                                   *)
(***************************************************************************)
\* the handler call: its event, the store and the time it started on, the
\* conditions it met, and where it is
Frame(event, store, t, mode) ==
    [pc |-> "try", event |-> event, handler |-> createHandler(event),
     before |-> store, t |-> t, mode |-> mode, F |-> {}, thrown |-> FALSE]

replyVars == <<pending, pc, last, batchLen, faulty, storeCall, sending, env>>

\* handler.handle(event) is entered
ReplyEnter ==
    /\ procs = << >>
    /\ visited = 0
    /\ \E e \in MainEvents, mode \in LogModes :
          procs' = <<Frame(e, [users |-> users, messages |-> messages], now, mode)>>
    /\ visited' = 1
    /\ UNCHANGED <<users, messages, now, sent, logs>>
    /\ UNCHANGED replyVars

\* this.logger.log(...) at the head of the try block
TryLogs ==
    /\ procs # << >>
    /\ procs[1].pc = "try"
    /\ logs' = Append(logs, logLine("INFO", "handling", procs[1].mode))
    /\ procs' = <<[procs[1] EXCEPT
                      !.pc = IF logLine("INFO", "handling", procs[1].mode).raised
                             THEN "catch" ELSE "logged"]>>
    /\ UNCHANGED <<users, messages, now, sent, visited>>
    /\ UNCHANGED replyVars

\* the runtime raises inside the try block, before its last call
Thrown ==
    /\ procs # << >>
    /\ procs[1].pc = "logged"
    /\ procs' = <<[procs[1] EXCEPT !.pc = "catch", !.thrown = TRUE]>>
    /\ UNCHANGED <<users, messages, now, sent, visited, logs>>
    /\ UNCHANGED replyVars

\* what the rest of the try block (r) leads to: the loop of format, the
\* catch block when the post of its call raises, or the end
afterTry(r, p) ==
    IF r.hung THEN "hung"
    ELSE IF r.calls # << >> /\ p.raised THEN "catch"
    ELSE "done"

\* the rest of the try block, down to its LINE call
TryRuns ==
    /\ procs # << >>
    /\ procs[1].pc = "logged"
    /\ \E F \in FailureSets, answer \in Answers :
          LET r == Handle(procs[1].handler, procs[1].event, users, messages, now, F)
              p == post(answer, procs[1].mode)
          IN  /\ users' = r.users
              /\ messages' = r.messages
              /\ sent' = sent \o tagged(r.calls, visited)
              /\ logs' = logs \o (IF r.calls # << >> THEN p.lines ELSE << >>)
              /\ procs' = <<[procs[1] EXCEPT !.pc = afterTry(r, p), !.F = F]>>
    /\ now' = now + 1
    /\ UNCHANGED visited
    /\ UNCHANGED replyVars

\* the handlers whose catch block replies
CatchRepliers == {"TextHandler", "ImageHandler", "PostbackHandler"}

\* the calls of the catch block
catchCalls(handler, event) ==
    IF handler \in CatchRepliers /\ event.replyToken # ""
    THEN <<replyText(event.replyToken, ERROR)>>
    ELSE << >>

\* the catch block: the error is logged and, when there is a reply token,
\* ERROR is sent; what is raised here goes to the caller
CatchReplies ==
    /\ procs # << >>
    /\ procs[1].pc = "catch"
    /\ \E answer \in Answers :
          LET line  == logLine("ERROR", "handler error", procs[1].mode)
              calls == IF line.raised THEN << >>
                       ELSE catchCalls(procs[1].handler, procs[1].event)
              p     == post(answer, procs[1].mode)
          IN  /\ sent' = sent \o tagged(calls, visited)
              /\ logs' = Append(logs, line) \o (IF calls # << >> THEN p.lines ELSE << >>)
              /\ procs' = <<[procs[1] EXCEPT
                                !.pc = IF line.raised \/ (calls # << >> /\ p.raised)
                                       THEN "raised" ELSE "done"]>>
    /\ UNCHANGED <<users, messages, now, visited>>
    /\ UNCHANGED replyVars

InitReply == \E h \in MainHistories : InitOn(StoreAfter(h), << >>, "idle")

NextReply == ReplyEnter \/ TryLogs \/ Thrown \/ TryRuns \/ CatchReplies

SpecReply == InitReply /\ [][NextReply]_vars

(***************************************************************************)
(* MessageFormatter.format as a function of its arguments.  A template is  *)
(* given by its pieces, each a placeholder or a plain text; a parameter    *)
(* object by its entries in the order of Object.keys.                      *)
(***************************************************************************)
XKey == <<"x">>

\* {key}
Placeholder(key) == <<"{">> \o key \o <<"}">>

FormatPieces ==
    {Placeholder(NameKey), Placeholder(AgeKey), Placeholder(XKey), <<"a">>, <<" ">>}

\* the pieces of a template, put together
RECURSIVE Joined(_)
Joined(pieces) == IF pieces = << >> THEN << >> ELSE Head(pieces) \o Joined(Tail(pieces))

FormatTemplates ==
    {<<p>> : p \in FormatPieces}
    \cup {<<p, q>> : p, q \in FormatPieces}
    \cup {<<p, q, r>> : p, q, r \in FormatPieces}

\* the values a user can give as a name, and an age as handleWaitingAgeState
\* passes it
FormatNames == {TextAl, TextDollarAmp, Placeholder(AgeKey), Placeholder(NameKey)}

FormatParams ==
    {<< >>}
    \cup {<<<<NameKey, n>>>> : n \in FormatNames}
    \cup {<< <<NameKey, n>>, <<AgeKey, Text30>> >> : n \in FormatNames}

\* MessageFormatter.format(template, params)
FormatCall ==
    /\ storeCall = NoCall
    /\ \E pieces \in FormatTemplates, params \in FormatParams :
          storeCall' = [kind |-> "format", pieces |-> pieces, params |-> params,
                        result |-> format(Joined(pieces), params)]
    /\ UNCHANGED <<users, messages, pending, pc, now, sent, last, batchLen, visited,
                   faulty, procs, sending, logs, env>>

InitFormat == InitOn(StoreAfter(<< >>), << >>, "idle")

NextFormat == FormatCall

SpecFormat == InitFormat /\ [][NextFormat]_vars

(***************************************************************************)
(* Invocations running at the same time, at the level of the calls         *)
(* saveUserData makes on the Users sheet: findUserRow reads the sheet,     *)
(* then setValues or appendRow writes it, and nothing holds the sheet      *)
(* between the two (the code takes no lock).  A handler makes its saves    *)
(* one after the other: that of a new user, then those of updateData and   *)
(* updateState.  saves[p] are the rows invocation p has still to save.     *)
(***************************************************************************)
SaveTexts == {KW_REGISTER, TextAl, Text30}

SaveEvents == {TextEvent("U1", x, "T") : x \in SaveTexts}

\* the rows the state handler saves for a text and a User object, in
\* order: what the sheet holds when the second save does not happen, then
\* what it holds when it does
rowsSaved(text, user, t) ==
    LET first == handleByState(text, user, << >>, t, {"user.updateState"}).users
        both  == handleByState(text, user, << >>, t, {}).users
    IN  first \o (IF both # first THEN both ELSE << >>)

SaveProc(event) ==
    [pc |-> "start", event |-> event, found |-> Null, saves |-> << >>,
     existingRow |-> 0, response |-> Null, created |-> FALSE]

saveLoopVars ==
    <<pending, pc, last, batchLen, visited, faulty, storeCall, sending, logs, env, now>>

\* a webhook call arrives while another may still run
SaveReceive ==
    /\ Len(procs) < Cardinality(Invocations)
    /\ \E e \in SaveEvents : procs' = Append(procs, SaveProc(e))
    /\ UNCHANGED <<users, messages, sent>>
    /\ UNCHANGED saveLoopVars

\* the handler of p up to its lookup: message.save(), then
\* User.findByUserId(userId); the User object it goes on with is the one
\* found or a new one
SaveFind(p) ==
    /\ procs[p].pc = "start"
    /\ LET e     == procs[p].event
           found == findByUserId(users, e.userId, FALSE)
           user  == IF found = Null THEN NewUser(e.userId, Null, now) ELSE found[1]
       IN  /\ messages' = saveMessage(messages, e.userId, "text", <<<<"text", e.text>>>>,
                                      now, FALSE).messages
           /\ procs' = [procs EXCEPT
                          ![p].pc = "saving",
                          ![p].found = found,
                          ![p].created = (found = Null),
                          ![p].saves = (IF found = Null THEN <<userRow(user)>> ELSE << >>)
                                       \o rowsSaved(e.text, user, now),
                          ![p].response = <<handleByState(e.text, user, << >>, now, {}).response>>]
    /\ UNCHANGED <<users, sent>>
    /\ UNCHANGED saveLoopVars

\* saveUserData: const existingRow = this.findUserRow(sheet, userId)
SaveLocate(p) ==
    /\ procs[p].pc = "saving"
    /\ procs[p].saves # << >>
    /\ procs' = [procs EXCEPT
                    ![p].pc = "located",
                    ![p].existingRow = findUserRow(users, Head(procs[p].saves)[1])]
    /\ UNCHANGED <<users, messages, sent>>
    /\ UNCHANGED saveLoopVars

\* saveUserData: setValues on the row found, or appendRow
SaveWrite(p) ==
    /\ procs[p].pc = "located"
    /\ users' = writeUserRow(users, procs[p].existingRow,
                             IF Len(Head(procs[p].saves)) <= 5
                             THEN Append(Head(procs[p].saves), <<now>>)
                             ELSE Head(procs[p].saves))
    /\ procs' = [procs EXCEPT ![p].pc = "saving", ![p].saves = Tail(@)]
    /\ UNCHANGED <<messages, sent>>
    /\ UNCHANGED saveLoopVars

\* every save is made: the reply, unless format does not return
SaveReply(p) ==
    /\ procs[p].pc = "saving"
    /\ procs[p].saves = << >>
    /\ sent' = IF procs[p].response[1].hangs THEN sent
               ELSE sent \o tagged(<<replyText(procs[p].event.replyToken,
                                               procs[p].response[1].text)>>, p)
    /\ procs' = [procs EXCEPT ![p].pc = IF procs[p].response[1].hangs THEN "hung" ELSE "done"]
    /\ UNCHANGED <<users, messages>>
    /\ UNCHANGED saveLoopVars

SaveFindStep == \E p \in Running : SaveFind(p)

SaveLocateStep == \E p \in Running : SaveLocate(p)

SaveWriteStep == \E p \in Running : SaveWrite(p)

SaveReplyStep == \E p \in Running : SaveReply(p)

InitSave == \E h \in MainHistories : InitOn(StoreAfter(h), << >>, "idle")

NextSave ==
    SaveReceive \/ SaveFindStep \/ SaveLocateStep \/ SaveWriteStep \/ SaveReplyStep

SpecSave == InitSave /\ [][NextSave]_vars

(***************************************************************************)
(* EnvConfig.  The script properties and the script cache are shared by    *)
(* every invocation; envCache belongs to the instance of one invocation.   *)
(* A map gives each key a nullable: Null where the key is undefined.       *)
(***************************************************************************)
\* the values given to set
ConfigValues == {"v"}

\* the default values given to get
ConfigDefaults == {"", "d"}

\* what a call of EnvConfig returns and leaves behind
Returned(value, e) == [value |-> value, env |-> e]

\* this.properties.getProperty(key) || defaultValue
propertyOr(properties, key, defaultValue) ==
    IF properties[key] # Null /\ properties[key][1] # ""
    THEN properties[key][1]
    ELSE defaultValue

\* get once the value is read from the script properties: it is put in the
\* script cache and in envCache
getFromProperties(e, i, key, value) ==
    Returned(value, [e EXCEPT !.cache[key] = <<value>>,
                              !.envCache[i][key] = <<value>>])

\* EnvConfig.get(key, defaultValue) on instance i
get(e, i, key, defaultValue) ==
    IF e.envCache[i][key] # Null
    THEN Returned(e.envCache[i][key][1], e)
    ELSE IF e.cache[key] # Null
    THEN Returned(e.cache[key][1], [e EXCEPT !.envCache[i][key] = e.cache[key]])
    ELSE getFromProperties(e, i, key, propertyOr(e.properties, key, defaultValue))

\* EnvConfig.set(key, value) on instance i
set(e, i, key, value) ==
    [e EXCEPT !.properties[key] = <<value>>,
              !.cache[key] = <<value>>,
              !.envCache[i][key] = <<value>>]

\* EnvConfig.getAll() on instance i
getAll(e, i) == Returned(e.properties, [e EXCEPT !.envCache[i] = e.properties])

\* EnvConfig.clearAll() on instance i: the cache entries removed are those
\* of the keys of this instance's envCache
clearAll(e, i) ==
    [e EXCEPT !.properties = EmptyMap,
              !.cache = [key \in ConfigKeys |->
                            IF e.envCache[i][key] # Null THEN Null ELSE e.cache[key]],
              !.envCache[i] = EmptyMap]

\* the call is recorded with whether it came right after a clearAll
Called(op, key, defaultValue, result) ==
    [op |-> op, key |-> key, defaultValue |-> defaultValue, result |-> result,
     afterClear |-> env.call.op = "clearAll"]

configVars == <<users, messages, pending, pc, now, sent, last, batchLen, visited,
                faulty, storeCall, procs, sending, logs>>

ConfigGet ==
    /\ pc = "idle"
    /\ \E i \in ConfigInstances, key \in ConfigKeys, d \in ConfigDefaults :
          env' = [get(env, i, key, d).env EXCEPT
                     !.call = Called("get", key, d, get(env, i, key, d).value)]
    /\ UNCHANGED configVars

ConfigSet ==
    /\ pc = "idle"
    /\ \E i \in ConfigInstances, key \in ConfigKeys, value \in ConfigValues :
          env' = [set(env, i, key, value) EXCEPT !.call = Called("set", key, "", "")]
    /\ UNCHANGED configVars

ConfigGetAll ==
    /\ pc = "idle"
    /\ \E i \in ConfigInstances :
          env' = [getAll(env, i).env EXCEPT !.call = Called("getAll", "", "", "")]
    /\ UNCHANGED configVars

ConfigClearAll ==
    /\ pc = "idle"
    /\ \E i \in ConfigInstances :
          env' = [clearAll(env, i) EXCEPT !.call = Called("clearAll", "", "", "")]
    /\ UNCHANGED configVars

\* an entry of the script cache expires, or the cache drops it
ConfigExpire ==
    /\ pc = "idle"
    /\ \E key \in ConfigKeys :
          /\ env.cache[key] # Null
          /\ env' = [env EXCEPT !.cache[key] = Null]
    /\ UNCHANGED configVars

\* an invocation ends and the next one begins: getInstance() makes a new
\* EnvConfig, its envCache empty
ConfigRestart ==
    /\ pc = "idle"
    /\ \E i \in ConfigInstances :
          /\ env.envCache[i] # EmptyMap
          /\ env' = [env EXCEPT !.envCache[i] = EmptyMap]
    /\ UNCHANGED configVars

InitConfig == InitOn(StoreAfter(<< >>), << >>, "idle")

NextConfig ==
    \/ ConfigGet
    \/ ConfigSet
    \/ ConfigGetAll
    \/ ConfigClearAll
    \/ ConfigExpire
    \/ ConfigRestart

SpecConfig == InitConfig /\ [][NextConfig]_vars
(***************************************************************************)
(* Vocabulary of the properties.                                           *)
(***************************************************************************)
\* the last step was the forEach callback of an event
Dispatched == last.index > 0

\* ... and no store operation failed and no constructor threw during it
CleanDispatch == Dispatched /\ ~last.createFailed /\ last.failed = {}

\* the calls issued for the last event
LastCalls == SelectSeq(sent, LAMBDA c : c.index = last.index)

\* the last event was answered with exactly one reply, carrying text
RepliedWith(text) ==
    LastCalls = <<[api |-> "reply", to |-> last.event.replyToken, text |-> text,
                   index |-> last.index]>>

\* the Users row of userId in a sheet, as a nullable
RowOf(sheet, userId) ==
    IF \E i \in 1..Len(sheet) : sheet[i][1] = userId
    THEN <<sheet[CHOOSE i \in 1..Len(sheet) : sheet[i][1] = userId]>>
    ELSE << >>

StateIn(sheet, userId) ==
    IF RowOf(sheet, userId) = << >> THEN "none" ELSE RowOf(sheet, userId)[1][3]

DataIn(sheet, userId) ==
    IF RowOf(sheet, userId) = << >> THEN << >> ELSE RowOf(sheet, userId)[1][4][2]

\* the value stored under key in the attribute map, as a nullable
Attr(sheet, userId, key) ==
    LET d == DataIn(sheet, userId)
    IN  IF \E i \in 1..Len(d) : d[i][1] = key
        THEN <<d[CHOOSE i \in 1..Len(d) : d[i][1] = key][2]>>
        ELSE << >>

\* the state the last event was evaluated against: the persisted one, or
\* INITIAL for a user without a row
StateBefore ==
    IF StateIn(last.before, last.event.userId) = "none"
    THEN INITIAL ELSE StateIn(last.before, last.event.userId)

\* the last event was a text event that passed TextHandler's guard
TextHandled ==
    /\ CleanDispatch
    /\ last.handler = "TextHandler"
    /\ last.event.userId # ""
    /\ last.event.text # << >>

\* s without its leading and trailing white space
Core(s) ==
    LET solid == {i \in 1..Len(s) : s[i] \notin WhiteSpace}
    IN  IF solid = {} THEN << >>
        ELSE SubSeq(s, CHOOSE i \in solid : \A j \in solid : i <= j,
                       CHOOSE i \in solid : \A j \in solid : j <= i)

TrimmedLength(s) == Len(Core(s))

Digits == {"0", "1", "2", "3", "4", "5", "6", "7", "8", "9"}

\* s is, white space around it apart, an integer in decimal notation: an
\* optional sign and digits only
Unsigned(s) == IF s # << >> /\ s[1] \in {"+", "-"} THEN Tail(s) ELSE s

IsIntegerText(s) ==
    /\ Unsigned(Core(s)) # << >>
    /\ \A i \in 1..Len(Unsigned(Core(s))) : Unsigned(Core(s))[i] \in Digits

\* decimal notation of the integer n
RECURSIVE Numeral(_)
Numeral(n) ==
    IF n < 0 THEN <<"-">> \o Numeral(0 - n)
    ELSE IF n < 10 THEN <<(<<"0", "1", "2", "3", "4", "5", "6", "7", "8", "9">>)[n + 1]>>
    ELSE Numeral(n \div 10) \o Numeral(n % 10)

\* reply is an instance of template: it starts with the template's text up
\* to the first placeholder, and is the template itself when it has none
InstanceOf(template, reply) ==
    IF indexOf(template, <<"{">>) < 0 THEN reply = template
    ELSE startsWith(reply, SubSeq(template, 1, indexOf(template, <<"{">>)))

(***************************************************************************)
(* C1: for every dispatched event exactly one handler is selected, first   *)
(* match wins: a message event with message kind text selects TextHandler, *)
(* one with kind image ImageHandler, a postback event PostbackHandler, and *)
(* every other event (a message of another or of no kind included)         *)
(* DefaultHandler.                                                         *)
(***************************************************************************)
ExpectedHandler(e) ==
    IF e.type = "message" /\ e.msgType = "text" THEN "TextHandler"
    ELSE IF e.type = "message" /\ e.msgType = "image" THEN "ImageHandler"
    ELSE IF e.type = "message" THEN "DefaultHandler"
    ELSE IF e.type = "postback" THEN "PostbackHandler"
    ELSE "DefaultHandler"

C1_HandlerSelection ==
    (Dispatched /\ ~last.createFailed) => last.handler = ExpectedHandler(last.event)

C1_Witness ==
    /\ Dispatched /\ ~last.createFailed
    /\ last.event.type = "message" /\ last.event.msgType = "sticker"
    /\ last.handler = "DefaultHandler"

(***************************************************************************)
(* C2 (as claimed): the transition function is total and is the table's:   *)
(* for each of the four states and every non-empty text, handling the text *)
(* (with the store working) gives one reply, an instance of the table's    *)
(* template, and persists the table's next state.  The age row of the      *)
(* table accepts integers from 1 to 120 and rejects every other text.      *)
(***************************************************************************)
TableNext(state, text) ==
    CASE state = INITIAL -> IF text = KW_REGISTER THEN WAITING_NAME ELSE INITIAL
      [] state = WAITING_NAME -> IF TrimmedLength(text) >= 2 THEN WAITING_AGE ELSE WAITING_NAME
      [] state = WAITING_AGE ->
            IF IsIntegerText(text) /\ parseInt(text).val \in 1..120
            THEN REGISTERED ELSE WAITING_AGE
      [] state = REGISTERED -> REGISTERED

TableTemplate(state, text) ==
    CASE state = INITIAL ->
            IF text = KW_REGISTER THEN REGISTRATION_START
            ELSE IF text = KW_HELP THEN HELP ELSE WELCOME
      [] state = WAITING_NAME ->
            IF TrimmedLength(text) >= 2 THEN NAME_CONFIRMED ELSE INVALID_NAME
      [] state = WAITING_AGE ->
            IF IsIntegerText(text) /\ parseInt(text).val \in 1..120
            THEN REGISTRATION_COMPLETED ELSE INVALID_AGE
      [] state = REGISTERED -> IF text = KW_HELP THEN HELP ELSE DEFAULT_RESPONSE

C2_TransitionTable ==
    (TextHandled /\ StateBefore \in {INITIAL, WAITING_NAME, WAITING_AGE, REGISTERED})
    => /\ StateIn(users, last.event.userId) = TableNext(StateBefore, last.event.text)
       /\ Len(LastCalls) = 1
       /\ LastCalls[1].api = "reply"
       /\ InstanceOf(TableTemplate(StateBefore, last.event.text), LastCalls[1].text)

\* the step that leaves the table: "30.5" taken for the age 30
C2_Witness ==
    /\ TextHandled
    /\ StateBefore = WAITING_AGE
    /\ last.event.text = Text30dot5
    /\ StateIn(users, last.event.userId) = REGISTERED

(***************************************************************************)
(* C3: on a store without a row for U1 and with the store working, after   *)
(* the texts register keyword, "Al", "thirty", "30" have been handled in   *)
(* this order the persisted states are WAITING_NAME, WAITING_AGE,          *)
(* WAITING_AGE (row unchanged) and REGISTERED, and the replies are the     *)
(* registration-start text, a text containing "Al", the age validation     *)
(* error, and a text containing "Al" and "30".                             *)
(***************************************************************************)
ScenarioOrder == <<KW_REGISTER, TextAl, TextThirty, Text30>>

\* the texts handled so far, as the Messages sheet records them
Told == [i \in 1..Len(messages) |-> messages[i][3][2][1][2]]

ScenarioState(k) ==
    CASE k = 1 -> WAITING_NAME
      [] k = 2 -> WAITING_AGE
      [] k = 3 -> WAITING_AGE
      [] k = 4 -> REGISTERED

ScenarioReply(k, reply) ==
    CASE k = 1 -> reply = REGISTRATION_START
      [] k = 2 -> includes(reply, TextAl)
      [] k = 3 -> reply = INVALID_AGE /\ users = last.before
      [] k = 4 -> includes(reply, TextAl) /\ includes(reply, Text30)

C3_RegistrationScenario ==
    ~faulty =>
        \A k \in 1..4 :
            Told = SubSeq(ScenarioOrder, 1, k) =>
                /\ StateIn(users, "U1") = ScenarioState(k)
                /\ (Dispatched /\ ~last.createFailed) =>
                      /\ Len(LastCalls) = 1
                      /\ LastCalls[1].api = "reply"
                      /\ ScenarioReply(k, LastCalls[1].text)

C3_Witness ==
    /\ ~faulty
    /\ Told = ScenarioOrder
    /\ Dispatched /\ ~last.createFailed
    /\ StateIn(users, "U1") = REGISTERED
    /\ Attr(users, "U1", AgeKey) = <<30>>

(***************************************************************************)
(* C4 (as claimed): an error raised while the handler of an event is       *)
(* created or runs is caught, so the events after it are still dispatched, *)
(* and every event of a batch is dispatched by the time the invocation     *)
(* ends.                                                                   *)
(***************************************************************************)
C4_EveryEventDispatched ==
    /\ (Dispatched /\ last.createFailed) => pc = "running"
    /\ pc \in {"finished", "killed"} => visited = batchLen

\* the invocation ended by the platform while an event was still pending:
\* the reply to the name "{name}" is never completed
C4_Witness ==
    /\ pc = "killed"
    /\ visited < batchLen
    /\ last.event.text = TextNamePlaceholder
    /\ last.hung

(***************************************************************************)
(* C5 (as claimed): whenever the reply of a state-changing row has been    *)
(* sent (registration start, name confirmed, registration completed), the  *)
(* Users row of that user holds the next state and the updated attribute,  *)
(* whatever the outcome of the store writes.                               *)
(***************************************************************************)
C5_NoInMemoryTransition ==
    (Dispatched /\ last.handler = "TextHandler" /\ Len(LastCalls) = 1) =>
        /\ LastCalls[1].text = REGISTRATION_START
           => StateIn(users, last.event.userId) = WAITING_NAME
        /\ InstanceOf(NAME_CONFIRMED, LastCalls[1].text)
           => /\ StateIn(users, last.event.userId) = WAITING_AGE
              /\ Attr(users, last.event.userId, NameKey) = <<last.event.text>>
        /\ InstanceOf(REGISTRATION_COMPLETED, LastCalls[1].text)
           => /\ StateIn(users, last.event.userId) = REGISTERED
              /\ Attr(users, last.event.userId, AgeKey) # << >>

\* the registration-start reply sent although the write of the state failed
C5_Witness ==
    /\ Dispatched
    /\ last.event.text = KW_REGISTER
    /\ last.failed = {"user.updateState"}
    /\ RepliedWith(REGISTRATION_START)
    /\ StateIn(users, last.event.userId) # WAITING_NAME

(***************************************************************************)
(* C6 (as claimed): when a write of the User row or of the Message row     *)
(* fails while a text event with a reply token is handled, the only reply  *)
(* sent for the event is the generic error text.                           *)
(***************************************************************************)
WriteOps == {"message.save", "user.create", "user.updateData", "user.updateState"}

C6_PersistenceFailureFatal ==
    (/\ Dispatched
     /\ last.handler = "TextHandler"
     /\ last.failed \cap WriteOps # {}
     /\ last.event.replyToken # "")
    => RepliedWith(ERROR)

\* the welcome reply sent although the Messages row could not be written
C6_Witness ==
    /\ Dispatched
    /\ last.handler = "TextHandler"
    /\ last.failed = {"message.save"}
    /\ last.event.replyToken # ""
    /\ RepliedWith(WELCOME)

(***************************************************************************)
(* C7 (as claimed): in state WAITING_AGE a text that is not an integer     *)
(* gets the age validation-error reply, stores no age attribute and        *)
(* leaves the state WAITING_AGE.                                           *)
(***************************************************************************)
C7_NonIntegerRejected ==
    (TextHandled /\ StateBefore = WAITING_AGE /\ ~IsIntegerText(last.event.text))
    => /\ RepliedWith(INVALID_AGE)
       /\ StateIn(users, last.event.userId) = WAITING_AGE
       /\ Attr(users, last.event.userId, AgeKey) = << >>

\* "30abc" accepted as the age 30
C7_Witness ==
    /\ TextHandled
    /\ StateBefore = WAITING_AGE
    /\ last.event.text = Text30abc
    /\ StateIn(users, last.event.userId) = REGISTERED
    /\ Attr(users, last.event.userId, AgeKey) = <<30>>

C9_NameValidation ==
    (TextHandled /\ StateBefore = WAITING_NAME) =>
        IF TrimmedLength(last.event.text) < 2
        THEN RepliedWith(INVALID_NAME) /\ users = last.before
        ELSE /\ StateIn(users, last.event.userId) = WAITING_AGE
             /\ Attr(users, last.event.userId, NameKey) = <<last.event.text>>

C9_Witness ==
    /\ TextHandled
    /\ StateBefore = WAITING_NAME
    /\ last.event.text = TextPaddedAl
    /\ Attr(users, last.event.userId, NameKey) = <<TextPaddedAl>>

(***************************************************************************)
(* C10: for a user whose persisted state is REGISTERED, with the store     *)
(* working, handling a text leaves the state REGISTERED and the attribute  *)
(* map as it was, the first time and the second, and the same text gets    *)
(* the same reply both times.                                              *)
(***************************************************************************)
C10_RegisteredAbsorbing ==
    (TextHandled /\ StateBefore = REGISTERED) =>
        /\ StateIn(users, last.event.userId) = REGISTERED
        /\ DataIn(users, last.event.userId) = DataIn(last.before, last.event.userId)
        /\ Len(LastCalls) = 1
        /\ (/\ last.index = 2
            /\ StateIn(last.origin, last.event.userId) = REGISTERED
            /\ last.prior = {}
            /\ Len(sent) = 2)
           => /\ DataIn(users, last.event.userId) = DataIn(last.origin, last.event.userId)
              /\ sent[1].index = 1
              /\ sent[1].text = sent[2].text

C10_Witness ==
    /\ TextHandled
    /\ StateBefore = REGISTERED
    /\ last.event.text = TextHi
    /\ last.index = 2 /\ last.prior = {} /\ Len(sent) = 2
    /\ StateIn(last.origin, last.event.userId) = REGISTERED
    /\ StateIn(users, last.event.userId) = REGISTERED
(***************************************************************************)
(* C11: a text event of a user id without a Users row, with the store      *)
(* working, creates a row with state INITIAL, an empty attribute map and   *)
(* an unset updated-timestamp before the table is consulted: the text is   *)
(* answered as the table's INITIAL rows say, the row is there afterwards   *)
(* with the creation time of the event, and it is exactly the new row when *)
(* the text starts no registration.                                        *)
(***************************************************************************)
\* the row of a user just constructed at time t
FreshRow(userId, t) == <<userId, << >>, INITIAL, <<"json", << >>>>, t, << >>>>

C11_CreatedInitial ==
    (TextHandled /\ RowOf(last.before, last.event.userId) = << >>) =>
        /\ RepliedWith(TableTemplate(INITIAL, last.event.text))
        /\ RowOf(users, last.event.userId) # << >>
        /\ Len(users) = Len(last.before) + 1
        /\ RowOf(users, last.event.userId)[1][5] = now - 1
        /\ DataIn(users, last.event.userId) = << >>
        /\ StateIn(users, last.event.userId) = TableNext(INITIAL, last.event.text)
        /\ last.event.text # KW_REGISTER
           => RowOf(users, last.event.userId) = <<FreshRow(last.event.userId, now - 1)>>

C11_Witness ==
    /\ TextHandled
    /\ RowOf(last.before, "U2") = << >>
    /\ last.event.userId = "U2"
    /\ last.event.text = KW_REGISTER
    /\ RepliedWith(REGISTRATION_START)
    /\ StateIn(users, "U2") = WAITING_NAME

(***************************************************************************)
(* C12: after any sequence of store calls the Users sheet holds at most    *)
(* one row per user id: a write appends a row, at the end, only when no    *)
(* row has the user id, and otherwise overwrites the matched row in place, *)
(* leaving every other row as it was.                                      *)
(***************************************************************************)
UniqueUserIds ==
    \A i, j \in 1..Len(users) : users[i][1] = users[j][1] => i = j

\* the last store call was a write that succeeded
Wrote ==
    /\ storeCall.kind \in {"save", "updateData", "updateState"}
    /\ storeCall.ok

\* the sheet had a row of the written user before the write
Overwrote ==
    \E i \in 1..Len(storeCall.before) : storeCall.before[i][1] = storeCall.user.userId

C12_OneRowPerUser ==
    /\ UniqueUserIds
    /\ Wrote =>
          IF Overwrote
          THEN /\ Len(users) = Len(storeCall.before)
               /\ \A i \in 1..Len(users) :
                     /\ users[i][1] = storeCall.before[i][1]
                     /\ users[i][1] # storeCall.user.userId
                        => users[i] = storeCall.before[i]
          ELSE /\ Len(users) = Len(storeCall.before) + 1
               /\ SubSeq(users, 1, Len(storeCall.before)) = storeCall.before
               /\ users[Len(users)][1] = storeCall.user.userId

C12_Witness ==
    /\ Wrote
    /\ Overwrote
    /\ Len(users) = 2
    /\ users[2][1] = storeCall.user.userId
    /\ users[2] # storeCall.before[2]
    /\ users[1] = storeCall.before[1]

(***************************************************************************)
(* C13: a lost update is reachable.  When two invocations handle texts of  *)
(* the same user at the same time, both may look up the same Users row     *)
(* before either writes; then the row is left as the later writer's        *)
(* object, which was derived from the row both read, and what the earlier  *)
(* writer stored is gone.                                                  *)
(***************************************************************************)
\* p and q handled texts of one user on the same row, each having looked
\* it up before the other wrote, and q wrote after p
Raced(p, q) ==
    /\ procs[p].handler = "TextHandler" /\ procs[q].handler = "TextHandler"
    /\ procs[p].pc \in {"handled", "done"} /\ procs[q].pc \in {"handled", "done"}
    /\ procs[p].event.userId = procs[q].event.userId
    /\ procs[p].found # << >>
    /\ procs[p].found = procs[q].found
    /\ procs[p].readAt < procs[q].wroteAt
    /\ procs[q].readAt < procs[p].wroteAt
    /\ procs[p].wroteAt < procs[q].wroteAt
    /\ procs[p].user # procs[p].found
    /\ procs[q].user # procs[q].found

C13_LostUpdate ==
    \A p, q \in 1..Len(procs) :
        Raced(p, q) =>
            /\ StateIn(users, procs[q].event.userId) = procs[q].user[1].state
            /\ DataIn(users, procs[q].event.userId) = procs[q].user[1].data

\* the name "Al" stored by the first invocation is overwritten by the second
C13_Witness ==
    /\ Len(procs) = 2
    /\ Raced(1, 2)
    /\ procs[1].event.text = TextAl
    /\ procs[1].user[1].data = <<<<NameKey, TextAl>>>>
    /\ procs[2].event.text = TextHi
    /\ Attr(users, "U1", NameKey) = <<TextHi>>

(***************************************************************************)
(* C14 (as claimed): User.findByUserId(u.userId) called right after a      *)
(* successful u.save() returns a record whose user id, display name,       *)
(* state, attribute map and creation timestamp are those of u.             *)
(***************************************************************************)
\* the last call was a successful lookup of the user a successful save had
\* just written
FoundAfterSave ==
    /\ storeCall.kind = "find"
    /\ storeCall.ok
    /\ storeCall.after.kind = "save"
    /\ storeCall.after.ok
    /\ storeCall.after.user.userId = storeCall.userId

C14_SaveFindRoundTrip ==
    FoundAfterSave =>
        /\ storeCall.found # << >>
        /\ storeCall.found[1].userId = storeCall.after.user.userId
        /\ storeCall.found[1].displayName = storeCall.after.user.displayName
        /\ storeCall.found[1].state = storeCall.after.user.state
        /\ storeCall.found[1].data = storeCall.after.user.data
        /\ storeCall.found[1].createdAt = storeCall.after.user.createdAt

\* a user saved without a display name (null) is found with the display
\* name ''
C14_Witness ==
    /\ FoundAfterSave
    /\ storeCall.after.user.displayName = << >>
    /\ storeCall.found # << >>
    /\ storeCall.found[1].displayName = << << >> >>
    /\ storeCall.found[1].state = storeCall.after.user.state
    /\ storeCall.found[1].data = storeCall.after.user.data

(***************************************************************************)
(* C15 (as claimed): a successful save leaves the updated-timestamp of the *)
(* row empty when it inserts the row and sets it when it overwrites a row, *)
(* whatever record is saved, one whose updatedAt is null included.         *)
(***************************************************************************)
\* the updatedAt cell of the row of userId
UpdatedCell(sheet, userId) == RowOf(sheet, userId)[1][6]

C15_UpdatedOnOverwriteOnly ==
    (storeCall.kind = "save" /\ storeCall.ok) =>
        IF Overwrote
        THEN UpdatedCell(users, storeCall.user.userId) # << >>
        ELSE UpdatedCell(users, storeCall.user.userId) = << >>

\* a row overwritten by a record without updatedAt has an empty
\* updated-timestamp afterwards
C15_Witness ==
    /\ storeCall.kind = "save" /\ storeCall.ok
    /\ Overwrote
    /\ storeCall.user.updatedAt = << >>
    /\ UpdatedCell(storeCall.before, storeCall.user.userId) # << >>
    /\ UpdatedCell(users, storeCall.user.userId) = << >>

(***************************************************************************)
(* C16: the attribute map is merged, not replaced: after a successful      *)
(* updateData the stored map has the mentioned key with its new value and  *)
(* every other key that was stored before with its old value, and no       *)
(* further key.                                                            *)
(***************************************************************************)
\* the keys of an attribute map
KeysOf(data) == {data[i][1] : i \in 1..Len(data)}

C16_AttributesMerged ==
    (storeCall.kind = "updateData" /\ storeCall.ok) =>
        /\ KeysOf(DataIn(users, storeCall.user.userId))
           = KeysOf(DataIn(storeCall.before, storeCall.user.userId))
             \cup KeysOf(storeCall.arg)
        /\ \A k \in KeysOf(DataIn(users, storeCall.user.userId)) :
              Attr(users, storeCall.user.userId, k)
              = IF k \in KeysOf(storeCall.arg)
                THEN <<storeCall.arg[1][2]>>
                ELSE Attr(storeCall.before, storeCall.user.userId, k)

\* storing an age keeps the name
C16_Witness ==
    /\ storeCall.kind = "updateData" /\ storeCall.ok
    /\ storeCall.arg = <<<<AgeKey, 7>>>>
    /\ Attr(storeCall.before, storeCall.user.userId, NameKey) = <<TextAl>>
    /\ Attr(storeCall.before, storeCall.user.userId, AgeKey) = <<30>>
    /\ Attr(users, storeCall.user.userId, NameKey) = <<TextAl>>
    /\ Attr(users, storeCall.user.userId, AgeKey) = <<7>>

(***************************************************************************)
(* C17: in every reachable state the state field of every row of the Users *)
(* sheet is one of INITIAL, WAITING_NAME, WAITING_AGE, REGISTERED.         *)
(***************************************************************************)
C17_StateIsOneOfFour ==
    \A i \in 1..Len(users) :
        users[i][3] \in {INITIAL, WAITING_NAME, WAITING_AGE, REGISTERED}

\* two rows, one of them just moved to REGISTERED
C17_Witness ==
    /\ Dispatched
    /\ Len(users) = 2
    /\ StateBefore = WAITING_AGE
    /\ StateIn(users, last.event.userId) = REGISTERED

(***************************************************************************)
(* C18: the Messages sheet is append-only: every step leaves the rows that *)
(* were there as they were, in their places; it can only add rows after    *)
(* them.                                                                   *)
(***************************************************************************)
C18_MessagesAppendOnly ==
    [][/\ Len(messages') >= Len(messages)
       /\ SubSeq(messages', 1, Len(messages)) = messages]_vars

\* a row was appended behind rows that were already there
C18_Witness ==
    /\ Dispatched
    /\ last.failed = {}
    /\ Len(messages) >= 3
    /\ messages[Len(messages)][1] = last.event.userId
    /\ messages[Len(messages)][4] = now - 1

(***************************************************************************)
(* C19: with the store working, each text, image or postback event that    *)
(* passes its handler's guard (user id present and, respectively, a        *)
(* non-empty text, a message id, postback data) appends exactly one        *)
(* Messages row of its kind for its user id, and no other event appends    *)
(* any; the row is appended before the handler looks the user up, writes   *)
(* the user or calls the LINE API.                                         *)
(***************************************************************************)
\* the kind of Message an event warrants, "" when it warrants none
Warranted(e) ==
    IF e.userId = "" THEN ""
    ELSE IF e.type = "message" /\ e.msgType = "text" /\ e.text # << >> THEN "text"
    ELSE IF e.type = "message" /\ e.msgType = "image" /\ e.msgId # "" THEN "image"
    ELSE IF e.type = "postback" /\ e.data # << >> THEN "postback"
    ELSE ""

\* the Messages rows written at time t
RowsAt(t) == {i \in 1..Len(messages) : messages[i][4] = t}

\* the Messages rows written since the invocations began
NewRows == {i \in 1..Len(messages) : messages[i][4] >= 0}

\* invocation p has passed its guard and saved its Message
Logged(p) == procs[p].pc # "start" /\ Warranted(procs[p].event) # ""

C19_OneMessagePerEvent ==
    /\ Cardinality(NewRows) = Cardinality({p \in 1..Len(procs) : Logged(p)})
    /\ \A p \in 1..Len(procs) :
          /\ Logged(p) =>
                /\ Cardinality(RowsAt(procs[p].savedAt)) = 1
                /\ \A i \in RowsAt(procs[p].savedAt) :
                      /\ messages[i][1] = procs[p].event.userId
                      /\ messages[i][2] = Warranted(procs[p].event)
          /\ procs[p].pc \in {"found", "created", "handled", "done"}
             /\ Warranted(procs[p].event) = "text"
             => Logged(p) /\ procs[p].savedAt < procs[p].readAt
          /\ procs[p].pc \in {"handled", "done"} /\ Warranted(procs[p].event) = "text"
             => procs[p].savedAt < procs[p].wroteAt
          /\ (\E i \in 1..Len(sent) : sent[i].index = p)
             => Logged(p) /\ procs[p].pc = "done"
          /\ procs[p].pc \in {"start", "saved"} => procs[p].user = << >>

\* a postback event, an image event: each has its row and the call that
\* came after it
C19_Witness ==
    /\ Len(procs) = 2
    /\ procs[1].pc = "done" /\ procs[2].pc = "done"
    /\ Warranted(procs[1].event) = "postback"
    /\ Warranted(procs[2].event) = "image"
    /\ Cardinality(NewRows) = 2
    /\ Len(sent) = 2


\* the times of the user's rows in the sheet, as a bag
StampsOf(sheet, userId) ==
    LET mine == {i \in 1..Len(sheet) : sheet[i][1] = userId}
    IN  [t \in {sheet[i][4] : i \in mine} |->
            Cardinality({i \in mine : sheet[i][4] = t})]

\* the times of a history, as a bag
StampsIn(history) ==
    [t \in {history[i].timestamp : i \in 1..Len(history)} |->
        Cardinality({i \in 1..Len(history) : history[i].timestamp = t})]

\* the number of the user's rows
CountOf(sheet, userId) == Cardinality({i \in 1..Len(sheet) : sheet[i][1] = userId})

\* a history query with a limit of zero or more that the store answered
Queried ==
    /\ storeCall.kind = "history"
    /\ storeCall.ok
    /\ storeCall.limit >= 0

\* C20: a history query for a user with limit n returns only messages of
\* that user, newest first, min(n, count) of them, and they are the most
\* recent ones: every row of the user that is newer than the oldest message
\* returned is returned, and nothing is returned that is not in the sheet.
\* In particular rows at t1 < t2 < t3 and limit 2 give [t3, t2], whatever
\* the order of the rows and whatever rows of other users lie between them.
C20_HistoryNewestFirst ==
    Queried =>
        LET res   == storeCall.result
            id    == storeCall.userId
            count == CountOf(messages, id)
            mine  == StampsOf(messages, id)
            got   == StampsIn(res)
        IN  /\ \A i \in 1..Len(res) : res[i].userId = id
            /\ \A i, j \in 1..Len(res) : i < j => res[i].timestamp >= res[j].timestamp
            /\ Len(res) = (IF storeCall.limit < count THEN storeCall.limit ELSE count)
            /\ \A t \in DOMAIN got : t \in DOMAIN mine /\ got[t] <= mine[t]
            /\ Len(res) > 0 =>
                  \A t \in DOMAIN mine :
                      t > res[Len(res)].timestamp => t \in DOMAIN got /\ got[t] = mine[t]
            /\ (mine = [t \in {1, 2, 3} |-> 1] /\ storeCall.limit = 2) =>
                  <<res[1].timestamp, res[2].timestamp>> = <<3, 2>>

\* C20 witness: U1's rows at times 2, 3, 1 in that order, with a row of U2
\* among them, queried with limit 2: the history is the rows at 3 and 2
C20_Witness ==
    /\ Queried
    /\ storeCall.userId = "U1"
    /\ storeCall.limit = 2
    /\ Len(messages) = 4
    /\ <<messages[1][1], messages[2][1], messages[3][1], messages[4][1]>>
           = <<"U1", "U2", "U1", "U1">>
    /\ <<messages[1][4], messages[3][4], messages[4][4]>> = <<2, 3, 1>>
    /\ Len(storeCall.result) = 2
    /\ <<storeCall.result[1].timestamp, storeCall.result[2].timestamp>> = <<3, 2>>

(***************************************************************************)
(* Properties of LineService.                                              *)
(***************************************************************************)
\* sendLongMessage is the call, in progress or over
LongSend == sending.pc # "none" /\ sending.call = "sendLongMessage"

\* sendLongMessage has returned
LongSent == LongSend /\ sending.pc = "returned"

\* the posts made, without the waits
Posts == SelectSeq(sent, LAMBDA c : c.api \in {"reply", "push"})

\* the waits made
Waits == SelectSeq(sent, LAMBDA c : c.api = "sleep")

\* a push text without its continuation marker
Stripped(text) == SubSeq(text, Len(ANALYSIS_CONTINUED) + 1, Len(text))

\* the reply text followed by the stripped push texts
RECURSIVE Reconstructed(_)
Reconstructed(posts) ==
    IF posts = << >> THEN << >>
    ELSE Reconstructed(SubSeq(posts, 1, Len(posts) - 1))
         \o (IF posts[Len(posts)].api = "push"
             THEN Stripped(posts[Len(posts)].text)
             ELSE posts[Len(posts)].text)

\* ceil(n / 4000)
Chunks(n) == (n + 3999) \div 4000

\* C21: sendLongMessage on a text of length L <= 4000 makes one reply with
\* the whole text and no push; on a longer text it makes ceil(L / 4000)
\* posts, the first a reply with the first 4000 units, every later one a
\* push to the user of the marker followed by the next slice of at most
\* 4000 units, and the reply text followed by the stripped push texts is
\* the text; length 9000 gives parts of 4000, 4000 and 1000.
C21_ChunkedSend ==
    LongSent =>
        LET L == Len(sending.text)
        IN  /\ L <= 4000 => Posts = <<replyText(sending.replyToken, sending.text)>>
            /\ L > 4000 =>
                  /\ Len(Posts) = Chunks(L)
                  /\ Posts[1] = replyText(sending.replyToken, SubSeq(sending.text, 1, 4000))
                  /\ \A i \in 2..Len(Posts) :
                        /\ Posts[i].api = "push"
                        /\ Posts[i].to = sending.userId
                        /\ startsWith(Posts[i].text, ANALYSIS_CONTINUED)
                        /\ Len(Stripped(Posts[i].text)) <= 4000
                        /\ Stripped(Posts[i].text)
                              = SubSeq(sending.text, 4000 * (i - 1) + 1,
                                       IF 4000 * i < L THEN 4000 * i ELSE L)
                  /\ Reconstructed(Posts) = sending.text
            /\ L = 9000 =>
                  <<Len(Posts[1].text), Len(Stripped(Posts[2].text)),
                    Len(Stripped(Posts[3].text))>> = <<4000, 4000, 1000>>

\* C21 witness: a text of 9000 units has been sent in three posts
C21_Witness ==
    /\ LongSent
    /\ Len(sending.text) = 9000
    /\ Len(Posts) = 3
    /\ Posts[1].api = "reply"
    /\ Posts[3].api = "push"

\* C22: in sendLongMessage the reply comes first, every push comes right
\* after a wait of 500 ms, every wait comes right after a post, and when
\* the call returns there are as many waits as pushes; a text that fits in
\* one message is sent with no wait.
C22_WaitBeforeEveryPush ==
    LongSend =>
        /\ sent # << >> => sent[1].api = "reply"
        /\ \A i \in 1..Len(sent) :
              /\ sent[i].api = "push" =>
                    /\ i > 1
                    /\ sent[i - 1].api = "sleep"
                    /\ sent[i - 1].ms = 500
              /\ sent[i].api = "sleep" => i > 1 /\ sent[i - 1].api \in {"reply", "push"}
              /\ sent[i].api = "reply" => i = 1
        /\ LongSent =>
              Len(Waits) = Len(SelectSeq(sent, LAMBDA c : c.api = "push"))
        /\ (LongSent /\ Len(sending.text) <= 4000) => Waits = << >>

\* C22 witness: two pushes have been made, each behind its own wait
C22_Witness ==
    /\ LongSent
    /\ Len(sent) = 5
    /\ <<sent[1].api, sent[2].api, sent[3].api, sent[4].api, sent[5].api>>
           = <<"reply", "sleep", "push", "sleep", "push">>

\* a post that met a transport error: fetch raised, or the platform
\* answered with an error
Refused(answer) == answer.raised \/ answer.code >= 400

\* C23: sendLongMessage makes no post after one that met a transport error,
\* returns false when one did, and returns true only when none did.
C23_AbortOnTransportError ==
    LongSend =>
        LET bad == {i \in 1..Len(sending.answers) : Refused(sending.answers[i])}
        IN  /\ \A i \in bad : Len(sending.answers) = i
            /\ LongSent => (sending.returned = <<TRUE>> <=> bad = {})

\* C23 witness: sendLongMessage has returned after the reply met a
\* transport error
C23_Witness ==
    /\ LongSent
    /\ Len(sending.text) > 4000
    /\ Len(sending.answers) = 3
    /\ sending.answers[1].raised

\* the lines a logger wrote at a level
LinesAt(level) == SelectSeq(logs, LAMBDA l : l.level = level)

\* a response outside 200..299
Non2xx(answer) == ~answer.raised /\ (answer.code < 200 \/ answer.code > 299)

\* C25: post never raises; a response that is not 2xx is logged as an
\* error and returned as {code, body}; an exception of the transport is
\* logged and returned as {code: 500, body: its message}; so replyText,
\* pushText and sendLoadingAnimation never raise.
C25_PostNeverRaises ==
    sending.pc # "none" =>
        /\ ~sending.raised
        /\ \A i \in 1..Len(sending.answers) :
              LET answer == sending.answers[i]
                  p      == sending.results[i]
              IN  /\ ~p.raised
                  /\ answer.raised => p.result = [code |-> 500, body |-> answer.body]
                  /\ ~answer.raised =>
                        p.result = [code |-> answer.code, body |-> answer.body]
                  /\ (answer.raised \/ Non2xx(answer)) =>
                        \E k \in 1..Len(p.lines) : p.lines[k].level = "ERROR"

\* C25 witness: replyText has returned the {code, body} of a response that
\* is not 2xx
C25_Witness ==
    /\ sending.pc = "returned"
    /\ sending.call = "replyText"
    /\ Non2xx(sending.answers[1])
    /\ sending.returned = <<[code |-> sending.answers[1].code,
                            body |-> sending.answers[1].body]>>

(***************************************************************************)
(* Properties of a handler call with its catch block.                      *)
(***************************************************************************)
\* the replies made so far by the handler call
Replies == SelectSeq(sent, LAMBDA c : c.api = "reply")

\* the handler call is over
HandlerOver == procs # << >> /\ procs[1].pc \in {"done", "hung", "raised"}

\* C24: whatever path a handler call takes through its try and catch
\* blocks, it calls replyText at most once, and with the reply token of its
\* event.
C24_ReplyTokenOnce ==
    procs # << >> =>
        /\ Len(Replies) <= 1
        /\ \A i \in 1..Len(Replies) : Replies[i].to = procs[1].event.replyToken

\* C24 witness: a text handler left its try block by an exception and has
\* replied ERROR with the token of its event, once
C24_Witness ==
    /\ HandlerOver
    /\ procs[1].thrown
    /\ procs[1].handler = "TextHandler"
    /\ procs[1].event.replyToken = "T"
    /\ Len(Replies) = 1
    /\ Replies[1].text = ERROR

\* the calls recorded, without the position of their event
Untagged(calls) ==
    [i \in 1..Len(calls) |->
        [api |-> calls[i].api, to |-> calls[i].to, text |-> calls[i].text]]

\* C26: no log line lets a failure of its Logs row out, and when a handler
\* call is over the Users rows, the Messages rows and the LINE calls are
\* those the handler makes of its event, its store and the store failures
\* it met, whatever became of the Logs rows: saved, failed or skipped.
C26_LogWritesDoNotMatter ==
    /\ \A i \in 1..Len(logs) : ~logs[i].raised
    /\ (HandlerOver /\ ~procs[1].thrown) =>
          LET f == procs[1]
              r == Handle(f.handler, f.event, f.before.users, f.before.messages, f.t, f.F)
          IN  /\ users = r.users
              /\ messages = r.messages
              /\ Untagged(sent) = r.calls

\* C26 witness: a handler call whose Logs rows all failed has written the
\* user's row and replied
C26_Witness ==
    /\ HandlerOver
    /\ procs[1].mode = "fails"
    /\ ~procs[1].thrown
    /\ logs # << >>
    /\ \A i \in 1..Len(logs) : logs[i].row = "failed"
    /\ users # procs[1].before.users
    /\ Len(Replies) = 1

(***************************************************************************)
(* Properties of MessageFormatter.format.                                  *)
(***************************************************************************)
\* a piece after substitution: the value of its key when it is the
\* placeholder of a key of the parameters, itself otherwise
Substituted(piece, params) ==
    LET hits == {i \in 1..Len(params) : piece = Placeholder(params[i][1])}
    IN  IF hits = {} THEN piece ELSE params[CHOOSE i \in hits : TRUE][2]

\* the simultaneous substitution of the placeholders of a template
RECURSIVE Simultaneous(_, _)
Simultaneous(pieces, params) ==
    IF pieces = << >> THEN << >>
    ELSE Substituted(Head(pieces), params) \o Simultaneous(Tail(pieces), params)

\* format has been called
Formatted == storeCall.kind = "format"

\* C27: format returns its template with every placeholder of a key of the
\* parameters replaced by the key's value and every other placeholder left
\* as it is, the text of a value not being substituted again.
C27_SimultaneousSubstitution ==
    Formatted =>
        /\ ~storeCall.result.hangs
        /\ storeCall.result.text = Simultaneous(storeCall.pieces, storeCall.params)

\* C27 witness: both occurrences of {name} replaced, {x} left verbatim
C27_Witness ==
    /\ Formatted
    /\ storeCall.pieces = <<Placeholder(NameKey), Placeholder(XKey), Placeholder(NameKey)>>
    /\ storeCall.params = <<<<NameKey, TextAl>>>>
    /\ ~storeCall.result.hangs
    /\ storeCall.result.text = <<"A", "l", "{", "x", "}", "A", "l">>

(***************************************************************************)
(* Properties of doPost's loop over the batch.                             *)
(***************************************************************************)
\* the invocation got the batch [register keyword, "Al"] from a user with
\* no row, and has handled both events with the store working
RegisterThenName ==
    /\ visited = 2
    /\ batchLen = 2
    /\ RowOf(last.origin, "U1") = << >>
    /\ last.event = TextEvent("U1", TextAl, "T")
    /\ SelectSeq(sent, LAMBDA c : c.index = 1)
          = <<[api |-> "reply", to |-> "T", text |-> REGISTRATION_START, index |-> 1]>>
    /\ ~last.createFailed
    /\ last.failed = {}
    /\ last.prior = {}

\* one callback of forEach: the event handled is the first one not yet
\* handled, no other is touched, and its handler starts on the Users and
\* Messages sheets as the callbacks before it left them
InOrderOnCurrentStore ==
    (pc = "running" /\ visited' = visited + 1) =>
        /\ pending # << >>
        /\ last'.event = Head(pending)
        /\ last'.index = visited + 1
        /\ pending' = Tail(pending)
        /\ last'.before = users
        /\ \/ last'.createFailed /\ users' = users /\ messages' = messages
           \/ \E F \in FailureSets :
                 LET r == Handle(createHandler(Head(pending)), Head(pending),
                                 users, messages, now, F)
                 IN  users' = r.users /\ messages' = r.messages

\* C28: the events of a batch are handled in order, one at a time, each
\* handler starting on the store as the handlers before it left it; the
\* batch [register keyword, "Al"] of a new user leaves the user in
\* WAITING_AGE.
C28_BatchInOrder ==
    /\ [](RegisterThenName => StateIn(users, "U1") = WAITING_AGE)
    /\ [][InOrderOnCurrentStore]_vars

\* C28 witness: both events of the batch handled, the user in WAITING_AGE
\* with the name stored
C28_Witness ==
    /\ RegisterThenName
    /\ StateIn(users, "U1") = WAITING_AGE
    /\ Attr(users, "U1", NameKey) = <<TextAl>>

(***************************************************************************)
(* Properties of the saves of invocations running at the same time.        *)
(***************************************************************************)
\* the rows of a user id in the Users sheet
RowsOf(userId) == {i \in 1..Len(users) : users[i][1] = userId}

\* the attribute map of a row holds the key
Holds(row, key) == \E i \in 1..Len(row[4][2]) : row[4][2][i][1] = key

\* C29: no row of the Users sheet has a name stored while its state is
\* still WAITING_NAME, or an age stored while its state is still
\* WAITING_AGE: the attribute and the state that goes with it reach the
\* row in one write.
C29_StateAndAttributeTogether ==
    \A i \in 1..Len(users) :
        /\ users[i][3] = WAITING_NAME => ~Holds(users[i], NameKey)
        /\ users[i][3] = WAITING_AGE => ~Holds(users[i], AgeKey)

\* C29 witness: an invocation that found the user in WAITING_NAME has made
\* all its saves, and the row holds the name in state WAITING_AGE
C29_Witness ==
    /\ Len(procs) = 1
    /\ procs[1].pc = "done"
    /\ procs[1].found # Null
    /\ procs[1].found[1].state = WAITING_NAME
    /\ \E i \in RowsOf("U1") : users[i][3] = WAITING_AGE /\ Holds(users[i], NameKey)

\* C30: two invocations that both found no row for the user id of their
\* event leave at most one row for it in the Users sheet.
C30_OneRowAfterRace ==
    (/\ Len(procs) = 2
     /\ procs[1].created
     /\ procs[2].created
     /\ procs[1].event.userId = procs[2].event.userId)
    => Cardinality(RowsOf(procs[1].event.userId)) <= 1

\* C30 witness: both invocations found no row for U1 and have made all their
\* saves
C30_Witness ==
    /\ Len(procs) = 2
    /\ procs[1].created
    /\ procs[2].created
    /\ procs[1].pc = "done"
    /\ procs[2].pc = "done"
    /\ RowsOf("U1") # {}

(***************************************************************************)
(* Properties of termination, of the rows kept and of the events that      *)
(* leave no trace.                                                         *)
(***************************************************************************)
\* the last event was a text that handleWaitingNameState accepted as a name
NameAccepted ==
    /\ TextHandled
    /\ StateBefore = WAITING_NAME
    /\ TrimmedLength(last.event.text) >= 2

\* C31: the handler of a text event returns for every text: format comes
\* to an end, also on a name that holds its own placeholder, so no
\* invocation is stuck in a handler or ended by the platform with events
\* left, and every accepted name has been answered when its callback is
\* over.
C31_TextHandlingTerminates ==
    /\ pc \notin {"hung", "killed"}
    /\ Dispatched => ~last.hung
    /\ NameAccepted => Len(LastCalls) = 1

\* C31 witness: the name "{name}" has been accepted in WAITING_NAME
C31_Witness ==
    /\ NameAccepted
    /\ last.event.text = TextNamePlaceholder
    /\ Attr(users, last.event.userId, NameKey) = <<TextNamePlaceholder>>

\* the row holds a name of trimmed length at least 2
Named(row) ==
    \E i \in 1..Len(row[4][2]) :
        row[4][2][i][1] = NameKey /\ TrimmedLength(row[4][2][i][2]) >= 2

\* the row holds an integer age from 1 to 120
Aged(row) ==
    \E i \in 1..Len(row[4][2]) :
        row[4][2][i][1] = AgeKey /\ row[4][2][i][2] \in 1..120

\* C32: every Users row in state WAITING_AGE or REGISTERED holds a name of
\* trimmed length at least 2, and every row in state REGISTERED holds an
\* integer age from 1 to 120 as well.
C32_RegisteredRowsComplete ==
    \A i \in 1..Len(users) :
        /\ users[i][3] \in {WAITING_AGE, REGISTERED} => Named(users[i])
        /\ users[i][3] = REGISTERED => Aged(users[i])

\* C32 witness: an age has just been accepted and the user's row is
\* REGISTERED with name and age
C32_Witness ==
    /\ TextHandled
    /\ StateBefore = WAITING_AGE
    /\ \E i \in 1..Len(users) :
          /\ users[i][1] = last.event.userId
          /\ users[i][3] = REGISTERED
          /\ Named(users[i])
          /\ Aged(users[i])

\* the last event was a text event whose user has a row, and the lookup of
\* that row failed
LookupFailed ==
    /\ Dispatched
    /\ last.handler = "TextHandler"
    /\ "user.find" \in last.failed
    /\ RowOf(last.before, last.event.userId) # << >>

\* C34: when the lookup of an existing user fails while a text event is
\* handled, the user's row is left as it was.
C34_FailedLookupKeepsRow ==
    LookupFailed =>
        RowOf(users, last.event.userId) = RowOf(last.before, last.event.userId)

\* C34 witness: the lookup of a REGISTERED user failed and the row now
\* holds INITIAL and an empty attribute map
C34_Witness ==
    /\ LookupFailed
    /\ last.failed = {"user.find"}
    /\ StateBefore = REGISTERED
    /\ last.event.text = TextAl
    /\ StateIn(users, last.event.userId) = INITIAL
    /\ DataIn(users, last.event.userId) = << >>

\* the place of a state in INITIAL < WAITING_NAME < WAITING_AGE < REGISTERED;
\* a user without a row stands where INITIAL does
Rank(state) ==
    CASE state = WAITING_NAME -> 1
      [] state = WAITING_AGE -> 2
      [] state = REGISTERED -> 3
      [] OTHER -> 0

\* over the last event the state of userId went from rank a to rank b
Moved(userId, a, b) ==
    /\ Rank(StateIn(last.before, userId)) = a
    /\ Rank(StateIn(users, userId)) = b

\* C33: over each handled event no user's persisted state moves backwards in
\* INITIAL < WAITING_NAME < WAITING_AGE < REGISTERED, and none advances by
\* more than one step.
C33_StateMonotone ==
    Dispatched =>
        \A i \in 1..Len(users) :
            \E a \in 0..3 : \E b \in {a, a + 1} : Moved(users[i][1], a, b)

\* the same over the events whose user lookup did not fail
C33_StateMonotoneWhenLookupWorks ==
    Dispatched /\ "user.find" \notin last.failed =>
        \A i \in 1..Len(users) :
            \E a \in 0..3 : \E b \in {a, a + 1} : Moved(users[i][1], a, b)

\* C33 witness: a text event took a REGISTERED user back to INITIAL
C33_Witness ==
    /\ Dispatched
    /\ last.handler = "TextHandler"
    /\ last.event.text = KW_HELP
    /\ Moved(last.event.userId, 3, 0)

\* the last event went to a handler other than TextHandler
OtherHandled ==
    /\ Dispatched
    /\ last.handler \in {"ImageHandler", "PostbackHandler", "DefaultHandler"}

\* C35: handling an event routed to ImageHandler, PostbackHandler or
\* DefaultHandler leaves the Users table as it was: no row is changed and
\* none is created, also when the event's user has no row.
C35_OnlyTextChangesUsers ==
    OtherHandled => users = last.before

\* C35 witness: an image of a user without a row was handled and recorded in
\* Messages, and the user still has no row
C35_Witness ==
    /\ OtherHandled
    /\ last.handler = "ImageHandler"
    /\ last.event.userId # ""
    /\ RowOf(last.before, last.event.userId) = << >>
    /\ RowOf(users, last.event.userId) = << >>
    /\ \E i \in 1..Len(messages) :
          messages[i][1] = last.event.userId /\ messages[i][2] = "image"

\* a text event without user id or without text
Unguarded(event) ==
    /\ createHandler(event) = "TextHandler"
    /\ event.userId = "" \/ event.text = << >>

\* C36: handling a text event that has no user id, or whose text is empty,
\* changes nothing: the Messages and Users tables stay as they are and no
\* call to LINE is made.
C36_GuardedTextHasNoEffect ==
    [][pc = "running" /\ pending # << >> /\ Unguarded(Head(pending))
       => users' = users /\ messages' = messages /\ sent' = sent]_vars

\* C36 witness: a text event without user id was handled; its instant left
\* no Messages row, no call, and the Users table is the one before it
C36_Witness ==
    /\ Dispatched
    /\ ~last.createFailed
    /\ Unguarded(last.event)
    /\ last.event.userId = ""
    /\ last.event.text # << >>
    /\ users = last.before
    /\ LastCalls = << >>
    /\ \A i \in 1..Len(messages) : messages[i][4] # now - 1

\* C37: no reply call is made with an empty reply token: an event that
\* carries no reply token gets no reply call from its handler.
C37_ReplyOnlyWithToken ==
    \A i \in 1..Len(sent) : sent[i].api = "reply" => sent[i].to # ""

\* C37 witness: a text event without reply token was handled with the store
\* working, and a reply call with the empty token went out for it
C37_Witness ==
    /\ TextHandled
    /\ last.event.replyToken = ""
    /\ Len(LastCalls) = 1
    /\ LastCalls[1].api = "reply"
    /\ LastCalls[1].to = ""

\* the limit LINE puts on the length of a text message
LINE_TEXT_LIMIT == 4096

\* C38: every text sendLongMessage sends carries at most 4000 units of the
\* text it was given, and, continuation marker included, is never longer
\* than the 4096 units LINE accepts.
C38_PartsWithinLimit ==
    LongSend =>
        \A i \in 1..Len(Posts) :
            /\ Len(Posts[i].text) <= LINE_TEXT_LIMIT
            /\ Posts[i].api = "reply" => Len(Posts[i].text) <= MAX_MESSAGE_LENGTH
            /\ Posts[i].api = "push" =>
                  /\ SubSeq(Posts[i].text, 1, Len(ANALYSIS_CONTINUED)) = ANALYSIS_CONTINUED
                  /\ Len(Stripped(Posts[i].text)) <= MAX_MESSAGE_LENGTH

\* C38 witness: a text of 9000 units has been sent; its second part is a
\* push of the marker and 4000 units, 4014 in all
C38_Witness ==
    /\ LongSent
    /\ Len(sending.text) = 9000
    /\ Len(Posts) = 3
    /\ Posts[2].api = "push"
    /\ Len(Posts[2].text) = MAX_MESSAGE_LENGTH + Len(ANALYSIS_CONTINUED)
    /\ Len(Posts[2].text) = 4014

\* the last call of EnvConfig was a get that came right after a clearAll
GetAfterClear == env.call.op = "get" /\ env.call.afterClear

\* C39: a get that follows a clearAll returns the default it was given, for
\* every key, whatever calls of get, set and getAll came before the
\* clearAll, on the same instance or on another one.
C39_ClearedConfigGivesDefault ==
    GetAfterClear => env.call.result = env.call.defaultValue

\* C39 witness: right after a clearAll, get("K1", "d") returned the value
\* "v" an earlier set had left in the script cache
C39_Witness ==
    /\ GetAfterClear
    /\ env.call.key = "K1"
    /\ env.call.defaultValue = "d"
    /\ env.call.result = "v"
    /\ env.properties = EmptyMap
====
